---- MODULE Spec2Model ----
(***************************************************************************)
(* A model of the authenticated MCP server scaffold:                       *)
(*   - the airfare trend loader and query engine (trends.ts),              *)
(*   - the bearer-token verifier and request gate (auth part of trends.ts),*)
(*   - the POST /mcp handler (server.ts).                                  *)
(*                                                                         *)
(* Strings are sequences of one-character strings, so that trimming,       *)
(* splitting, case folding, prefix tests and the date patterns are         *)
(* computed the way the code computes them.  JavaScript values are tagged  *)
(* records (undefined, null, string, number).  Time values are counted in  *)
(* hours since the epoch instead of milliseconds (TLC integers are 32 bit);*)
(* every time value of the model is a whole number of hours.               *)
(***************************************************************************)
EXTENDS Integers, Sequences, FiniteSets, TLC

\* ------------------------------------------------------------------------
\* Characters and strings
\* ------------------------------------------------------------------------

UpperCase == <<"A","B","C","D","E","F","G","H","I","J","K","L","M",
               "N","O","P","Q","R","S","T","U","V","W","X","Y","Z">>

LowerCase == <<"a","b","c","d","e","f","g","h","i","j","k","l","m",
               "n","o","p","q","r","s","t","u","v","w","x","y","z">>

Digits == <<"0","1","2","3","4","5","6","7","8","9">>

WhiteSpace == {" ", "\t", "\n", "\r"}

IndexIn(seq, c) ==
  IF \E i \in 1..Len(seq) : seq[i] = c
  THEN CHOOSE i \in 1..Len(seq) : seq[i] = c
  ELSE 0

IsDigit(c) == IndexIn(Digits, c) > 0

DigitVal(c) == IndexIn(Digits, c) - 1

ToLowerChar(c) ==
  IF IndexIn(UpperCase, c) > 0 THEN LowerCase[IndexIn(UpperCase, c)] ELSE c

ToLowerCase(s) == [i \in 1..Len(s) |-> ToLowerChar(s[i])]

Range(seq) == {seq[i] : i \in 1..Len(seq)}

Min(a, b) == IF a < b THEN a ELSE b

Max(a, b) == IF a > b THEN a ELSE b

RECURSIVE TrimStart(_)
TrimStart(s) ==
  IF s # <<>> /\ Head(s) \in WhiteSpace THEN TrimStart(Tail(s)) ELSE s

RECURSIVE TrimEnd(_)
TrimEnd(s) ==
  IF s # <<>> /\ s[Len(s)] \in WhiteSpace
  THEN TrimEnd(SubSeq(s, 1, Len(s) - 1))
  ELSE s

Trim(s) == TrimEnd(TrimStart(s))

StartsWith(s, p) == Len(s) >= Len(p) /\ SubSeq(s, 1, Len(p)) = p

\* String.prototype.includes: p occurs in s as a contiguous substring.
Includes(s, p) ==
  \E i \in 0..(Len(s) - Len(p)) : SubSeq(s, i + 1, i + Len(p)) = p

\* String.prototype.slice(n) for n >= 0.
SliceFrom(s, n) == SubSeq(s, n + 1, Len(s))

RECURSIVE ParseDigits(_, _)
ParseDigits(s, acc) ==
  IF s = <<>> THEN acc ELSE ParseDigits(Tail(s), acc * 10 + DigitVal(Head(s)))

\* Number.parseInt(s, 10) of a string of digits.
ParseInt(s) == ParseDigits(s, 0)

AllDigits(s, from, to) == \A i \in from..to : IsDigit(s[i])

\* ------------------------------------------------------------------------
\* JavaScript values
\* ------------------------------------------------------------------------

Undefined == [t |-> "undefined"]

Null == [t |-> "null"]

Str(s) == [t |-> "string", s |-> s]

Num(n) == [t |-> "number", n |-> n]

IsNullish(v) == v.t \in {"undefined", "null"}

IsString(v) == v.t = "string"

\* obj[key] of a plain object: undefined when the key is absent.
Get(obj, key) == IF key \in DOMAIN obj THEN obj[key] ELSE Undefined

\* a ?? b
Coalesce(a, b) == IF IsNullish(a) THEN b ELSE a

RECURSIVE NatToString(_)
NatToString(n) ==
  IF n < 10 THEN <<Digits[n + 1]>>
  ELSE NatToString(n \div 10) \o <<Digits[(n % 10) + 1]>>

\* String(value)
StringOf(v) ==
  CASE v.t = "string" -> v.s
    [] v.t = "number" -> IF v.n < 0 THEN <<"-">> \o NatToString(-v.n)
                         ELSE NatToString(v.n)
    [] v.t = "null" -> <<"n","u","l","l">>
    [] OTHER -> <<"u","n","d","e","f","i","n","e","d">>

\* ------------------------------------------------------------------------
\* Dates (trends.ts: parseIsoDate)
\* ------------------------------------------------------------------------

\* Days since 1970-01-01 of the civil date y-m-d (m in 1..12), proleptic
\* Gregorian calendar, as ECMAScript's MakeDay computes it.
DaysFromCivil(y, m, d) ==
  LET yy  == IF m <= 2 THEN y - 1 ELSE y
      era == yy \div 400
      yoe == yy - era * 400
      mp  == IF m > 2 THEN m - 3 ELSE m + 9
      doy == (153 * mp + 2) \div 5 + d - 1
      doe == yoe * 365 + yoe \div 4 - yoe \div 100 + doy
  IN  era * 146097 + doe - 719468

\* Date.UTC(year, month, day) in days: month is 0-based and may lie outside
\* 0..11, day may lie outside the month (both roll over); a year in 0..99
\* means 1900 + year.
DateUTCDays(year, month, day) ==
  LET fullYear == IF year >= 0 /\ year <= 99 THEN 1900 + year ELSE year
      ym == fullYear + (month \div 12)
      mn == month % 12
  IN  DaysFromCivil(ym, mn + 1, 1) + day - 1

\* Date.prototype.getUTCDay of a day number: 0 is Sunday.
UTCDay(days) == (days + 4) % 7

DateOf(hours) == [t |-> "date", time |-> hours]

\* /^(\d{4})[-/](\d{2})[-/](\d{2})$/
DateMatch(s) ==
  /\ Len(s) = 10
  /\ AllDigits(s, 1, 4) /\ s[5] \in {"-", "/"}
  /\ AllDigits(s, 6, 7) /\ s[8] \in {"-", "/"}
  /\ AllDigits(s, 9, 10)

\* /^(\d{4})-W(\d{2})$/i
WeekMatch(s) ==
  /\ Len(s) = 8
  /\ AllDigits(s, 1, 4) /\ s[5] = "-" /\ s[6] \in {"W", "w"}
  /\ AllDigits(s, 7, 8)

WeekMonday(s) ==
  LET year == ParseInt(SubSeq(s, 1, 4))
      week == ParseInt(SubSeq(s, 7, 8))
      jan4 == DateUTCDays(year, 0, 4)
      jan4Weekday == IF UTCDay(jan4) = 0 THEN 7 ELSE UTCDay(jan4)
  IN  DateOf((jan4 + (1 - jan4Weekday) + (week - 1) * 7) * 24)

\* ------------------------------------------------------------------------
\* State
\* ------------------------------------------------------------------------

VARIABLES
  hostDate,   \* what the host's `new Date(text)` yields for LegacyDateText
  dir,        \* the dataset directory: listable or not, and its entries
  filters,    \* the filters of the last queryAirfareTrends call
  loaded,     \* what loadTrendDataset returned to that call
  result,     \* what that call returned
  reloaded,   \* a second loadTrendDataset of the directory: the listing
              \* readdir returned that time and what the call returned
  previous    \* the directory and the result of the query before the last

queryVars == <<hostDate, dir, filters, loaded, result, reloaded, previous>>

None == [t |-> "none"]

\* ------------------------------------------------------------------------
\* parseIsoDate
\* ------------------------------------------------------------------------

NaN == [t |-> "NaN"]

\* A text that neither pattern of parseIsoDate matches and that is not in
\* the ECMAScript date-time format: what `new Date(text)` makes of it is
\* left to the host (V8 reads it as local midnight of that day).
LegacyDateText == <<"A","u","g"," ","1","9"," ","2","0","2","4">>

\* Midnight UTC of 2024-08-19, the same instant read in a UTC+2 zone, or
\* a host that does not recognise the text.
HostDateOutcomes ==
  { NaN,
    Num(DateUTCDays(2024, 7, 19) * 24),
    Num(DateUTCDays(2024, 7, 19) * 24 - 2) }

\* new Date(text).getTime() for a text the two patterns rejected: every
\* other text of the model is unrecognisable and yields NaN.
NewDateTime(text) == IF text = LegacyDateText THEN hostDate ELSE NaN

\* parseIsoDate(value): a date, or Undefined ("no date").
ParseIsoDate(value) ==
  IF ~IsString(value) \/ value.s = <<>> THEN Undefined
  ELSE LET trimmed == Trim(value.s) IN
    IF trimmed = <<>> THEN Undefined
    ELSE IF DateMatch(trimmed)
    THEN DateOf(DateUTCDays(ParseInt(SubSeq(trimmed, 1, 4)),
                            ParseInt(SubSeq(trimmed, 6, 7)) - 1,
                            ParseInt(SubSeq(trimmed, 9, 10))) * 24)
    ELSE IF WeekMatch(trimmed) THEN WeekMonday(trimmed)
    ELSE IF NewDateTime(trimmed) = NaN THEN Undefined
    ELSE DateOf(NewDateTime(trimmed).n)

\* ------------------------------------------------------------------------
\* buildRow
\* ------------------------------------------------------------------------

OPTIONAL_COPY_KEYS ==
  <<"linked_tickers", "provider", "collection_window", "query_count", "week_id">>

EmptyStr == Str(<<>>)

\* The first of the keys whose value is not nullish (a ?? b ?? ... ?? '').
RECURSIVE FirstPresent(_, _)
FirstPresent(raw, keys) ==
  IF keys = <<>> THEN EmptyStr
  ELSE IF IsNullish(Get(raw, Head(keys))) THEN FirstPresent(raw, Tail(keys))
  ELSE Get(raw, Head(keys))

\* String(a ?? b ?? ... ?? '').trim()
TrimmedFirst(raw, keys) == Trim(StringOf(FirstPresent(raw, keys)))

RECURSIVE DigitPrefix(_)
DigitPrefix(s) ==
  IF s # <<>> /\ IsDigit(Head(s)) THEN <<Head(s)>> \o DigitPrefix(Tail(s))
  ELSE <<>>

\* coerceInt: Number.parseInt(String(value), 10) when finite, else undefined.
CoerceInt(value) ==
  IF IsNullish(value) \/ value = EmptyStr THEN Undefined
  ELSE LET s == TrimStart(StringOf(value))
           neg == s # <<>> /\ Head(s) = "-"
           body == IF s # <<>> /\ Head(s) \in {"-", "+"} THEN Tail(s) ELSE s
           ds == DigitPrefix(body)
       IN IF ds = <<>> THEN Undefined
          ELSE Num(IF neg THEN -ParseInt(ds) ELSE ParseInt(ds))

\* String.prototype.split(sep) for a one-character separator.
RECURSIVE SplitOn(_, _, _)
SplitOn(s, sep, cur) ==
  IF s = <<>> THEN <<cur>>
  ELSE IF Head(s) = sep THEN <<cur>> \o SplitOn(Tail(s), sep, <<>>)
  ELSE SplitOn(Tail(s), sep, Append(cur, Head(s)))

\* [..].filter(Boolean).join(' ')
RECURSIVE JoinNonEmpty(_)
JoinNonEmpty(parts) ==
  IF parts = <<>> THEN <<>>
  ELSE IF Head(parts) = <<>> THEN JoinNonEmpty(Tail(parts))
  ELSE IF JoinNonEmpty(Tail(parts)) = <<>> THEN Head(parts)
  ELSE Head(parts) \o <<" ">> \o JoinNonEmpty(Tail(parts))

\* The optional vendor fields copied verbatim when present and non-empty.
RECURSIVE OptionalCopies(_, _)
OptionalCopies(raw, keys) ==
  IF keys = <<>> THEN <<>>
  ELSE LET value == Get(raw, Head(keys))
           rest == OptionalCopies(raw, Tail(keys))
       IN IF IsNullish(value) \/ value = EmptyStr THEN rest
          ELSE (Head(keys) :> value) @@ rest

\* row[key] = value when cond (a later assignment wins over an earlier one:
\* the newer field is merged in front).
SetIf(cond, key, value, row) == IF cond THEN (key :> value) @@ row ELSE row

\* The query field with no fallback to the file name.
QueryOnly(query, sourceFile) == query

\* The snapshot_date field with no fallback to the date.
SnapshotDateOnly(snapshotDateValue, dateValue) == snapshotDateValue

\* snapshot_date: snapshotDateValue || dateValue
SnapshotDateOrDate(snapshotDateValue, dateValue) ==
  IF snapshotDateValue # <<>> THEN snapshotDateValue ELSE dateValue

\* query || sourceFile
QueryOrFile(query, sourceFile) == IF query # <<>> THEN query ELSE sourceFile

\* buildRow(raw, sourceFile, sourceFormat).  The float-valued passthrough
\* columns (avg_fare_usd, premium_fare_usd, fare_yoy_pct, load_factor_pct,
\* ancillary_revenue_pct, branding_mix) are not part of the model.
BuildRow(raw, sourceFile, sourceFormat) ==
  LET query0 == TrimmedFirst(raw, <<"query", "keyword", "term", "search_term">>)
      snapshotDateValue == TrimmedFirst(raw, <<"snapshot_date">>)
      dateValue == IF snapshotDateValue # <<>> THEN snapshotDateValue
                   ELSE TrimmedFirst(raw, <<"date", "week", "week_id", "period">>)
      region == TrimmedFirst(raw, <<"region", "region_name", "geo">>)
      searchIndex ==
        CoerceInt(Coalesce(Get(raw, "search_index"),
                  Coalesce(Get(raw, "index"), Get(raw, "score"))))
      notableEvent == TrimmedFirst(raw,
        <<"notable_driver", "notable_event", "notes", "channel_checks",
          "processing_notes">>)
      route == TrimmedFirst(raw, <<"route">>)
      airline == TrimmedFirst(raw, <<"airline">>)
      season == TrimmedFirst(raw, <<"season">>)
      query1 == IF query0 = <<>> /\ (route # <<>> \/ airline # <<>>)
                THEN Trim(JoinNonEmpty(<<route, airline, season>>))
                ELSE query0
      query2 == IF query1 = <<>>
                THEN TrimmedFirst(raw, <<"provider", "category", "topic">>)
                ELSE query1
      base == [ query |-> Str(QueryOrFile(query2, sourceFile)),
                date |-> Str(dateValue),
                snapshot_date |->
                  Str(SnapshotDateOrDate(snapshotDateValue, dateValue)),
                region |-> Str(region),
                search_index |-> searchIndex,
                notable_event |-> Str(notableEvent),
                source_file |-> Str(sourceFile),
                source_format |-> Str(sourceFormat) ]
      row1 == OptionalCopies(raw, OPTIONAL_COPY_KEYS) @@ base
      parts == SplitOn(route, "-", <<>>)
      origin == Trim(parts[1])
      destination == Trim(parts[2])
      row2 == SetIf(route # <<>>, "route", Str(route), row1)
      row3 == SetIf(Includes(route, <<"-">>) /\ origin # <<>>,
                    "origin_airport", Str(origin), row2)
      row4 == SetIf(Includes(route, <<"-">>) /\ destination # <<>>,
                    "destination_airport", Str(destination), row3)
      row5 == SetIf(airline # <<>>, "airline", Str(airline), row4)
      row6 == SetIf(season # <<>>, "season", Str(season), row5)
      advancePurchase == CoerceInt(Get(raw, "advance_purchase_days"))
      row7 == SetIf(advancePurchase # Undefined, "advance_purchase_days",
                    advancePurchase, row6)
      notableDriver == TrimmedFirst(raw, <<"notable_driver">>)
      row8 == SetIf(notableDriver # <<>>, "notable_driver",
                    Str(notableDriver), row7)
  IN  SetIf(notableDriver # <<>>, "notable_event", Str(notableDriver), row8)

\* ------------------------------------------------------------------------
\* localeCompare and the stable Array.prototype.sort
\* ------------------------------------------------------------------------

\* The characters of the model in the order of the default collation:
\* white space, punctuation, digits, letters (letter case is a tie-break).
CollationOrder ==
  <<" ", "_", "-", ",", ".", "/">> \o Digits \o LowerCase

PrimaryWeight(c) == IndexIn(CollationOrder, ToLowerChar(c))

RECURSIVE ComparePrimary(_, _)
ComparePrimary(a, b) ==
  IF a = <<>> /\ b = <<>> THEN 0
  ELSE IF a = <<>> THEN -1
  ELSE IF b = <<>> THEN 1
  ELSE IF PrimaryWeight(Head(a)) < PrimaryWeight(Head(b)) THEN -1
  ELSE IF PrimaryWeight(Head(a)) > PrimaryWeight(Head(b)) THEN 1
  ELSE ComparePrimary(Tail(a), Tail(b))

\* Equal up to letter case: the first differing letter decides, lower case
\* before upper case.
RECURSIVE CompareCase(_, _)
CompareCase(a, b) ==
  IF a = <<>> \/ b = <<>> THEN 0
  ELSE IF Head(a) = Head(b) THEN CompareCase(Tail(a), Tail(b))
  ELSE IF IndexIn(LowerCase, Head(a)) > 0 THEN -1
  ELSE 1

\* a.localeCompare(b): negative, zero or positive.
LocaleCompare(a, b) ==
  IF ComparePrimary(a, b) # 0 THEN ComparePrimary(a, b) ELSE CompareCase(a, b)

Front(s) == SubSeq(s, 1, Len(s) - 1)

Last(s) == s[Len(s)]

\* Array.prototype.sort(cmp) is stable: an element goes behind the elements
\* it does not precede.  cmp[<<a, b>>] is what the comparator returns for
\* the elements a and b of s.
SortSeqStable(s, cmp) ==
  LET RECURSIVE InsertSorted(_, _)
      InsertSorted(x, sorted) ==
        IF sorted = <<>> THEN <<x>>
        ELSE IF cmp[<<Last(sorted), x>>] <= 0 THEN Append(sorted, x)
        ELSE Append(InsertSorted(x, Front(sorted)), Last(sorted))
      \* s[lo..hi] inserted, in order, into acc (halving keeps the
      \* evaluation shallow).
      RECURSIVE InsertRange(_, _, _)
      InsertRange(acc, lo, hi) ==
        IF lo > hi THEN acc
        ELSE IF lo = hi THEN InsertSorted(s[lo], acc)
        ELSE LET left == InsertRange(acc, lo, (lo + hi) \div 2)
             IN  IF Len(left) > 0
                 THEN InsertRange(left, (lo + hi) \div 2 + 1, hi)
                 ELSE left
  IN  InsertRange(<<>>, 1, Len(s))

\* ------------------------------------------------------------------------
\* loadTrendDataset
\* ------------------------------------------------------------------------

CsvSuffix == <<".", "c", "s", "v">>

TsvSuffix == <<".", "t", "s", "v">>

JsonSuffix == <<".", "j", "s", "o", "n">>

SUPPORTED_SUFFIXES == {CsvSuffix, TsvSuffix, JsonSuffix}

LastIndexOf(s, c) ==
  IF \E i \in 1..Len(s) : s[i] = c
  THEN CHOOSE i \in 1..Len(s) : s[i] = c /\ \A j \in (i + 1)..Len(s) : s[j] # c
  ELSE 0

\* path.extname of a file name: from the last dot on, empty when there is
\* no dot or the only dot leads the name.
ExtName(name) ==
  IF LastIndexOf(name, ".") <= 1 THEN <<>>
  ELSE SubSeq(name, LastIndexOf(name, "."), Len(name))

\* SUPPORTED_SUFFIXES[extname(filePath).toLowerCase()]
SuffixOf(name) ==
  IF ToLowerCase(ExtName(name)) \in SUPPORTED_SUFFIXES
  THEN Tail(ToLowerCase(ExtName(name)))
  ELSE <<>>

Thrown == [threw |-> TRUE]

Returned(rows) == [threw |-> FALSE, rows |-> rows]

\* loadTrendRowsFromFile(filePath, suffix): reading or parsing the file
\* throws (unreadable file, JSON.parse or csv-parse rejecting the text), or
\* every record the parser yields goes through buildRow.  The file content
\* is held as the parser's outcome.
LoadTrendRowsFromFile(file, suffix) ==
  IF ~file.content.parses THEN Thrown
  ELSE Returned([i \in 1..Len(file.content.records) |->
                   BuildRow(file.content.records[i], file.name, suffix)])

IsSupportedFile(entry) == entry.isFile /\ SuffixOf(entry.name) # <<>>

CompareFileNames(a, b) == LocaleCompare(a.name, b.name)

\* AggregateRows as it would be without the try/catch around each file:
\* the first failure aborts the scan.
RECURSIVE AggregateRowsAborting(_)
AggregateRowsAborting(entries) ==
  IF entries = <<>> THEN Returned(<<>>)
  ELSE LET first == LoadTrendRowsFromFile(Head(entries), SuffixOf(Head(entries).name))
           rest == AggregateRowsAborting(Tail(entries))
       IN IF first.threw \/ rest.threw THEN Thrown
          ELSE Returned(first.rows \o rest.rows)

\* The loop over the sorted entries: a file that throws is logged and
\* skipped, the others' rows are appended in order.
RECURSIVE AggregateRows(_)
AggregateRows(entries) ==
  IF entries = <<>> THEN Returned(<<>>)
  ELSE LET first == LoadTrendRowsFromFile(Head(entries), SuffixOf(Head(entries).name))
           rest == AggregateRows(Tail(entries))
       IN IF rest.threw THEN Thrown
          ELSE IF first.threw THEN rest
          ELSE Returned(first.rows \o rest.rows)

FileNames(entries) == [i \in 1..Len(entries) |-> entries[i].name]

\* The entries in the order readdir listed them.
SortEntriesAsListed(entries) == entries

\* entries.sort((a, b) => basename(a).localeCompare(basename(b)))
SortEntries(entries) ==
  SortSeqStable(entries, [p \in Range(entries) \X Range(entries) |->
                            CompareFileNames(p[1], p[2])])

\* loadTrendDataset with the failure of readdir passed on to the caller.
LoadTrendDatasetRaising(d) ==
  IF ~d.listable THEN Thrown
  ELSE LET entries == SortEntries(SelectSeq(d.entries, IsSupportedFile))
           aggregated == AggregateRows(entries)
       IN IF aggregated.threw THEN Thrown
          ELSE [threw |-> FALSE, rows |-> aggregated.rows,
                availableFiles |-> FileNames(entries)]

\* loadTrendDataset(trendDataDir)
LoadTrendDataset(d) ==
  IF ~d.listable THEN [threw |-> FALSE, rows |-> <<>>, availableFiles |-> <<>>]
  ELSE LET entries == SortEntries(SelectSeq(d.entries, IsSupportedFile))
           aggregated == AggregateRows(entries)
       IN IF aggregated.threw THEN Thrown
          ELSE [threw |-> FALSE, rows |-> aggregated.rows,
                availableFiles |-> FileNames(entries)]

\* ------------------------------------------------------------------------
\* queryAirfareTrends
\* ------------------------------------------------------------------------

DEFAULT_LIMIT == 25

MAX_LIMIT == 200

\* (filters.x ?? '').trim().toLowerCase()
FilterText(value) == ToLowerCase(Trim(StringOf(Coalesce(value, EmptyStr))))

\* The field as it is stored, letter case kept.
FieldExact(row, key) == StringOf(Coalesce(Get(row, key), EmptyStr))

\* String(row[key] ?? '').toLowerCase()
FieldLower(row, key) == ToLowerCase(StringOf(Coalesce(Get(row, key), EmptyStr)))

\* parseIsoDate(typeof row['snapshot_date'] === 'string' ? ... : undefined)
RowSnapshot(row) ==
  ParseIsoDate(IF IsString(Get(row, "snapshot_date"))
               THEN Get(row, "snapshot_date") ELSE Undefined)

\* String(row['route'] ?? row['query'] ?? '')
RouteOrQuery(row) ==
  StringOf(Coalesce(Get(row, "route"), Coalesce(Get(row, "query"), EmptyStr)))

\* A row is kept when any one of the supplied filters accepts it.
RowMatchesAny(row, f) ==
  LET snapshotFilter == ParseIsoDate(Coalesce(f.snapshotDate, Undefined))
      routeFilter == FilterText(f.routeContains)
      originFilter == FilterText(f.originAirport)
      destinationFilter == FilterText(f.destinationAirport)
      airlineFilter == FilterText(f.airlineContains)
      seasonFilter == FilterText(f.seasonContains)
      notableFilter == FilterText(f.notableContains)
  IN  \/ /\ snapshotFilter = Undefined
         /\ \A text \in {routeFilter, originFilter, destinationFilter,
                          airlineFilter, seasonFilter, notableFilter} :
              text = <<>>
      \/ snapshotFilter # Undefined /\ RowSnapshot(row) = snapshotFilter
      \/ routeFilter # <<>>
           /\ Includes(ToLowerCase(RouteOrQuery(row)), routeFilter)
      \/ originFilter # <<>> /\ FieldLower(row, "origin_airport") = originFilter
      \/ destinationFilter # <<>>
           /\ FieldLower(row, "destination_airport") = destinationFilter
      \/ airlineFilter # <<>>
           /\ Includes(FieldLower(row, "airline"), airlineFilter)
      \/ seasonFilter # <<>>
           /\ Includes(FieldLower(row, "season"), seasonFilter)
      \/ notableFilter # <<>>
           /\ Includes(FieldLower(row, "notable_event"), notableFilter)

\* The predicate of rows.filter(...): toISOString() of two dates is equal
\* exactly when their time values are.
RowMatches(row, f) ==
  LET snapshotFilter == ParseIsoDate(Coalesce(f.snapshotDate, Undefined))
      routeFilter == FilterText(f.routeContains)
      originFilter == FilterText(f.originAirport)
      destinationFilter == FilterText(f.destinationAirport)
      airlineFilter == FilterText(f.airlineContains)
      seasonFilter == FilterText(f.seasonContains)
      notableFilter == FilterText(f.notableContains)
  IN  /\ ~(snapshotFilter # Undefined /\ RowSnapshot(row) # snapshotFilter)
      /\ ~(routeFilter # <<>>
             /\ ~Includes(ToLowerCase(RouteOrQuery(row)), routeFilter))
      /\ ~(originFilter # <<>> /\ FieldLower(row, "origin_airport") # originFilter)
      /\ ~(destinationFilter # <<>>
             /\ FieldLower(row, "destination_airport") # destinationFilter)
      /\ ~(airlineFilter # <<>>
             /\ ~Includes(FieldLower(row, "airline"), airlineFilter))
      /\ ~(seasonFilter # <<>>
             /\ ~Includes(FieldLower(row, "season"), seasonFilter))
      /\ ~(notableFilter # <<>>
             /\ ~Includes(FieldLower(row, "notable_event"), notableFilter))

\* CompareRows with the date difference taken the wrong way round (oldest
\* first).
CompareRowsOldestFirst(a, b) ==
  LET dateA == RowSnapshot(a)
      dateB == RowSnapshot(b)
      airlineA == StringOf(Coalesce(Get(a, "airline"), EmptyStr))
      airlineB == StringOf(Coalesce(Get(b, "airline"), EmptyStr))
  IN  IF dateA # dateB
      THEN IF dateA = Undefined THEN -1
           ELSE IF dateB = Undefined THEN 1
           ELSE dateA.time - dateB.time
      ELSE IF RouteOrQuery(a) # RouteOrQuery(b)
      THEN LocaleCompare(RouteOrQuery(a), RouteOrQuery(b))
      ELSE LocaleCompare(airlineA, airlineB)

\* The comparator of sortedRows: negative when a goes first.  A row without
\* a date counts as -Infinity.
CompareRows(a, b) ==
  LET dateA == RowSnapshot(a)
      dateB == RowSnapshot(b)
      airlineA == StringOf(Coalesce(Get(a, "airline"), EmptyStr))
      airlineB == StringOf(Coalesce(Get(b, "airline"), EmptyStr))
  IN  IF dateA # dateB
      THEN IF dateA = Undefined THEN 1
           ELSE IF dateB = Undefined THEN -1
           ELSE dateB.time - dateA.time
      ELSE IF RouteOrQuery(a) # RouteOrQuery(b)
      THEN LocaleCompare(RouteOrQuery(a), RouteOrQuery(b))
      ELSE LocaleCompare(airlineA, airlineB)

\* EffectiveLimit without the lower clamp: Math.min(limit ?? 25, 200).
EffectiveLimitNoFloor(limit) ==
  Min(Coalesce(limit, Num(DEFAULT_LIMIT)).n, MAX_LIMIT)

\* The limit floored at 1 and not capped.
EffectiveLimitNoCap(limit) == Max(Coalesce(limit, Num(DEFAULT_LIMIT)).n, 1)

\* Math.min(Math.max(filters.limit ?? DEFAULT_LIMIT, 1), MAX_LIMIT)
EffectiveLimit(limit) ==
  Min(Max(Coalesce(limit, Num(DEFAULT_LIMIT)).n, 1), MAX_LIMIT)

\* Array.prototype.slice(0, n) for n >= 0
SliceTo(s, n) == SubSeq(s, 1, Min(n, Len(s)))

FilterRows(rows, f) == LET Keep(row) == RowMatches(row, f) IN SelectSeq(rows, Keep)

SortRows(rows) ==
  SortSeqStable(rows, [p \in Range(rows) \X Range(rows) |->
                         CompareRows(p[1], p[2])])

\* The filters echoed by a query over a dataset that has rows.
EchoFilters(f, limit) ==
  [ snapshot_date |-> Coalesce(f.snapshotDate, Null),
    route_contains |-> Coalesce(f.routeContains, Null),
    origin_airport |-> Coalesce(f.originAirport, Null),
    destination_airport |-> Coalesce(f.destinationAirport, Null),
    airline_contains |-> Coalesce(f.airlineContains, Null),
    season_contains |-> Coalesce(f.seasonContains, Null),
    notable_contains |-> Coalesce(f.notableContains, Null),
    limit |-> Num(limit) ]

\* The return value of queryAirfareTrends once the dataset is loaded.
QueryLoaded(d, data, f) ==
  IF data.threw THEN Thrown
  ELSE IF Len(data.rows) = 0
  THEN [ threw |-> FALSE,
         rows |-> <<>>,
         available_files |-> data.availableFiles,
         filters |-> f,
         total_rows |-> 0,
         matched_rows |-> 0,
         rows_returned |-> 0,
         trend_data_dir |-> d.path ]
  ELSE LET sortedRows == SortRows(FilterRows(data.rows, f))
           limit == EffectiveLimit(f.limit)
           limitedRows == SliceTo(sortedRows, limit)
       IN [ threw |-> FALSE,
            rows |-> limitedRows,
            available_files |-> data.availableFiles,
            filters |-> EchoFilters(f, limit),
            total_rows |-> Len(data.rows),
            matched_rows |-> Len(sortedRows),
            rows_returned |-> Len(limitedRows),
            trend_data_dir |-> d.path ]

\* The dataset of an earlier call kept and used again.
DatasetKept(d, kept) == IF kept # None THEN kept ELSE LoadTrendDataset(d)

\* const { rows, availableFiles } = await loadTrendDataset(trendDataDir):
\* whatever an earlier call loaded, the directory is listed and parsed.
DatasetRead(d, kept) == LoadTrendDataset(d)

\* queryAirfareTrends(trendDataDir, filters)
QueryAirfareTrends(d, f) == QueryLoaded(d, LoadTrendDataset(d), f)

\* ------------------------------------------------------------------------
\* The datasets and filters the queries are run on
\* ------------------------------------------------------------------------

MaxEntries == 2

BigFileRows == 201

TxtJfkLhr == <<"J","F","K","-","L","H","R">>

TxtJfkCdgLower == <<"j","f","k","-","c","d","g">>

TxtBosSfo == <<"B","O","S","-","S","F","O">>

TxtAcmeAir == <<"A","c","m","e"," ","A","i","r">>

TxtZed == <<"Z","e","d">>

TxtSummer == <<"S","u","m","m","e","r">>

TxtStrike == <<"P","i","l","o","t"," ","s","t","r","i","k","e">>

TxtFares == <<"f","a","r","e","s">>

TxtLhrDeals == <<"l","h","r"," ","d","e","a","l","s">>

TxtDay19 == <<"2","0","2","4","-","0","8","-","1","9">>

TxtDay12Slash == <<"2","0","2","4","/","0","8","/","1","2">>

TxtWeek34 == <<"2","0","2","4","-","W","3","4">>

TxtNotADate == <<"n","/","a">>

TxtGarbage == <<"g","a","r","b","a","g","e">>

FileA ==
  [ name |-> <<"a",".","c","s","v">>, isFile |-> TRUE,
    content |-> [ parses |-> TRUE, records |-> <<
      [ route |-> Str(TxtJfkLhr), airline |-> Str(TxtAcmeAir),
        season |-> Str(TxtSummer), snapshot_date |-> Str(TxtDay19),
        notable_event |-> Str(TxtStrike) ],
      [ route |-> Str(TxtJfkCdgLower), airline |-> Str(<<>>),
        date |-> Str(TxtWeek34) ] >> ] ]

FileB ==
  [ name |-> <<"b",".","j","s","o","n">>, isFile |-> TRUE,
    content |-> [ parses |-> TRUE, records |-> <<
      [ route |-> Str(TxtJfkLhr), airline |-> Str(TxtZed),
        snapshot_date |-> Str(TxtDay12Slash) ],
      [ query |-> Str(TxtFares), snapshot_date |-> Str(LegacyDateText) ],
      [ keyword |-> Str(TxtLhrDeals), snapshot_date |-> Str(TxtNotADate) ] >> ] ]

FileC ==
  [ name |-> <<"C",".","T","S","V">>, isFile |-> TRUE,
    content |-> [ parses |-> TRUE, records |-> <<
      [ route |-> Str(TxtBosSfo), airline |-> Str(TxtZed) ],
      [ route |-> Str(TxtBosSfo), season |-> Str(TxtSummer) ] >> ] ]

\* A file whose text the parser rejects.
FileM ==
  [ name |-> <<"m",".","j","s","o","n">>, isFile |-> TRUE,
    content |-> [ parses |-> FALSE ] ]

\* A file with an unsupported suffix.
FileNotes ==
  [ name |-> <<"n",".","t","x","t">>, isFile |-> TRUE,
    content |-> [ parses |-> TRUE, records |-> << [ query |-> Str(TxtFares) ] >> ] ]

\* A subdirectory whose name carries a supported suffix.
SubDir ==
  [ name |-> <<"s",".","c","s","v">>, isFile |-> FALSE,
    content |-> [ parses |-> FALSE ] ]

FileBig ==
  [ name |-> <<"b","i","g",".","c","s","v">>, isFile |-> TRUE,
    content |-> [ parses |-> TRUE, records |->
      [ i \in 1..BigFileRows |->
          [ route |-> Str(TxtJfkLhr), airline |-> Str(TxtAcmeAir),
            snapshot_date |-> Str(TxtDay19) ] ] ] ]

EntryPool == {FileA, FileB, FileC, FileM, FileNotes, SubDir}

\* FileA after it was rewritten: one record left.
FileAEdited ==
  [ name |-> FileA.name, isFile |-> TRUE,
    content |-> [ parses |-> TRUE, records |-> <<
      [ route |-> Str(TxtBosSfo), airline |-> Str(TxtAcmeAir),
        snapshot_date |-> Str(TxtDay19) ] >> ] ]

\* The directory after one change: an entry added, an entry removed, or
\* FileA rewritten.
Changes(d) ==
  { [d EXCEPT !.entries = Append(d.entries, e)] :
      e \in EntryPool \ Range(d.entries) }
  \cup
  { [d EXCEPT !.entries = SubSeq(d.entries, 1, i - 1)
                          \o SubSeq(d.entries, i + 1, Len(d.entries))] :
      i \in 1..Len(d.entries) }
  \cup
  { [d EXCEPT !.entries = [i \in 1..Len(d.entries) |->
       IF d.entries[i] = FileA THEN FileAEdited ELSE d.entries[i]]] :
      e \in {FileA} \cap Range(d.entries) }

DirPath == <<"/","d","a","t","a">>

\* The listings readdir may return: up to MaxEntries distinct entries of
\* the pool in any order.
Listings ==
  UNION { { l \in [1..n -> EntryPool] :
              \A i, j \in 1..n : i # j => l[i] # l[j] } : n \in 0..MaxEntries }

Directories ==
  { [path |-> DirPath, listable |-> TRUE, entries |-> l] : l \in Listings }
  \cup { [path |-> DirPath, listable |-> TRUE, entries |-> <<FileBig>>],
         [path |-> DirPath, listable |-> FALSE, entries |-> <<>>] }

LimitChoices ==
  {Null, Num(-3), Num(0), Num(1), Num(2), Num(200), Num(201), Num(1000)}

SnapshotChoices == {Null, Str(TxtDay19), Str(TxtGarbage), Str(LegacyDateText)}

AllFilterSets ==
  [ snapshotDate : SnapshotChoices,
    routeContains : {Null, Str(<<" ","J","f","k"," ">>)},
    originAirport : {Null, Str(<<"j","f","k">>)},
    destinationAirport : {Null, Str(<<"L","H","R">>)},
    airlineContains : {Null, Str(<<"a","c","m","e">>)},
    seasonContains : {Null, Str(<<"S","U","M">>)},
    notableContains : {Null, Str(<<"s","t","r","i","k","e">>)},
    limit : LimitChoices ]

TextFilterKeys ==
  { "snapshotDate", "routeContains", "originAirport", "destinationAirport",
    "airlineContains", "seasonContains", "notableContains" }

ActiveFilters(f) == {k \in TextFilterKeys : f[k] # Null}

\* No text filter with every limit; one or two text filters, or all of
\* them, with the default limit; one text filter with a limit of 1.
FilterSets ==
  { f \in AllFilterSets :
      \/ ActiveFilters(f) = {}
      \/ Cardinality(ActiveFilters(f)) <= 2 /\ f.limit = Null
      \/ ActiveFilters(f) = TextFilterKeys /\ f.limit = Null
      \/ Cardinality(ActiveFilters(f)) = 1 /\ f.limit = Num(1) }

\* The big directory is queried by limit only.
QueryInputs(d) ==
  IF d.entries = <<FileBig>>
  THEN {f \in FilterSets : ActiveFilters(f) = {}}
  ELSE FilterSets

\* ------------------------------------------------------------------------
\* Bearer-token verification (auth part of trends.ts)
\* ------------------------------------------------------------------------

\* The texts of the gate, character by character.
TxtOpenid == <<"o","p","e","n","i","d">>

TxtProfile == <<"p","r","o","f","i","l","e">>

TxtEmail == <<"e","m","a","i","l">>

CommaSpace == <<","," ">>

TxtIssuer == <<"h","t","t","p","s",":","/","/","i","d","p","/">>

TxtResourceServer ==
  <<"h","t","t","p",":","/","/","l","o","c","a","l","h","o","s","t",":","8",
    "7","8","8">>

TxtAudienceA == <<"a","p","i",":","a">>

TxtAudienceB == <<"a","p","i",":","b">>

TxtUnknownClient ==
  <<"u","n","k","n","o","w","n","_","c","l","i","e","n","t">>

BearerPrefix == <<"b","e","a","r","e","r"," ">>

MsgMissingHeader ==
  <<"M","i","s","s","i","n","g"," ","A","u","t","h","o","r","i","z","a","t",
    "i","o","n"," ","h","e","a","d","e","r">>

MsgNotBearer ==
  <<"A","u","t","h","o","r","i","z","a","t","i","o","n"," ","h","e","a","d",
    "e","r"," ","m","u","s","t"," ","b","e"," ","a"," ","B","e","a","r","e",
    "r"," ","t","o","k","e","n">>

MsgMissingToken ==
  <<"M","i","s","s","i","n","g"," ","b","e","a","r","e","r"," ","t","o","k",
    "e","n">>

TxtUser == <<"u","s","e","r","-","1">>

TxtApp == <<"a","p","p","-","1">>

TxtAllScopes ==
  <<"o","p","e","n","i","d"," ","p","r","o","f","i","l","e"," ","e","m","a",
    "i","l">>

TxtAudienceOther == <<"o","t","h","e","r">>

TokForged == <<"f","o","r","g","e","d">>

TokRotated == <<"r","o","t","a","t","e","d">>

TxtOtherIssuer == <<"h","t","t","p","s",":","/","/","e","v","i","l","/">>

TxtAudienceZ == <<"a","p","i",":","z">>

TokNoAud == <<"n","o","a","u","d">>

TokNoExp == <<"n","o","e","x","p">>

TokResource == <<"r","e","s">>

TokClientId == <<"c","i","d">>

TokBothIds == <<"b","o","t","h">>

TokNoSub == <<"n","o","s","u","b">>

\* Tokens that fail verification and lack required scopes as well.
TokOldNoScopes == <<"o","l","d","0">>

TokForgedNoScopes == <<"f","0">>

TokOtherIssuerNoScopes == <<"i","0">>

TokOtherAudienceNoScopes == <<"a","0">>

TxtClient == <<"c","l","i","e","n","t","-","2">>

TxtScopesMixed ==
  <<"o","p","e","n","i","d",",","p","r","o","f","i","l","e"," "," ","e","m",
    "a","i","l">>

TxtScopesNoProfile == <<"o","p","e","n","i","d"," ","e","m","a","i","l">>

TxtProfilePadded == <<" ","p","r","o","f","i","l","e"," ">>

TxtScopesRunTogether ==
  <<"o","p","e","n","i","d","p","r","o","f","i","l","e"," ","e","m","a","i",
    "l">>

TxtScopesExtra ==
  <<" ","e","m","a","i","l"," ","o","p","e","n","i","d"," ","p","r","o","f",
    "i","l","e"," ","r","e","a","d",":","d","a","t","a">>

TxtScopesCapitalised ==
  <<"O","p","e","n","I","D"," ","P","r","o","f","i","l","e"," ","E","m","a",
    "i","l">>

TxtBearer == <<"B","e","a","r","e","r"," ">>

TxtBearerOk1 == <<"B","e","a","r","e","r"," ","o","k","1">>

TxtBearerOk2 == <<"B","e","a","r","e","r"," ","o","k","2">>

TxtBasic == <<"B","a","s","i","c"," ","d","X","N","l","c","g","=","=">>

TxtBearerOnly == <<"B","e","a","r","e","r">>

TxtBearerBlank == <<" ","B","e","a","r","e","r"," "," "," ">>

TxtBearerOddCase ==
  <<" "," ","b","E","A","R","E","R"," ","o","k","2"," "," ">>

TxtBearerTwoSpaces == <<"B","e","a","r","e","r"," "," ","o","k","1">>

TxtBearerNotJwt ==
  <<"B","e","a","r","e","r"," ","n","o","t","-","a","-","j","w","t">>

MsgInternal ==
  <<"I","n","t","e","r","n","a","l"," ","s","e","r","v","e","r"," ","e","r",
    "r","o","r">>

Arr(items) == [t |-> "array", items |-> items]

IsArray(v) == v.t = "array"

\* !value
IsFalsy(v) ==
  \/ v.t \in {"undefined", "null", "NaN"}
  \/ v.t = "string" /\ v.s = <<>>
  \/ v.t = "number" /\ v.n = 0

REQUIRED_SCOPES == << TxtOpenid, TxtProfile, TxtEmail >>

AuthorizationError(message, status) ==
  [threw |-> TRUE, name |-> "AuthorizationError",
   message |-> message, status |-> status]

\* An error of the token library: never an instance of AuthorizationError.
JoseError(code) == [threw |-> TRUE, name |-> code]

\* String.prototype.split(/[\s,]+/): every run of white space and commas
\* separates two items.
RECURSIVE SplitScopeText(_, _, _)
SplitScopeText(s, cur, inRun) ==
  IF s = <<>> THEN <<cur>>
  ELSE IF Head(s) \in WhiteSpace \cup {","}
       THEN IF inRun THEN SplitScopeText(Tail(s), cur, TRUE)
            ELSE <<cur>> \o SplitScopeText(Tail(s), <<>>, TRUE)
       ELSE SplitScopeText(Tail(s), Append(cur, Head(s)), FALSE)

ExtractScopes(payload) ==
  LET scopeValue == Coalesce(Get(payload, "scope"), Get(payload, "scp"))
      NonEmpty(item) == Len(item) > 0
      split == IF IsString(scopeValue)
               THEN SplitScopeText(scopeValue.s, <<>>, FALSE) ELSE <<>>
      items == IF IsArray(scopeValue) THEN scopeValue.items ELSE <<>>
  IN  IF IsFalsy(scopeValue) THEN <<>>
      ELSE IF IsString(scopeValue)
      THEN SelectSeq([i \in 1..Len(split) |-> Trim(split[i])], NonEmpty)
      ELSE IF IsArray(scopeValue)
      THEN SelectSeq([i \in 1..Len(items) |->
                        IF IsString(items[i]) THEN Trim(items[i].s) ELSE <<>>],
                     NonEmpty)
      ELSE <<>>

\* Array.prototype.join(sep)
RECURSIVE Join(_, _)
Join(items, sep) ==
  IF items = <<>> THEN <<>>
  ELSE IF Len(items) = 1 THEN Head(items)
  ELSE Head(items) \o sep \o Join(Tail(items), sep)

MissingScopesPrefix == <<"M","i","s","s","i","n","g"," ","r","e","q","u","i",
    "r","e","d"," ","s","c","o","p","e","s",":"," ">>

Passed == [threw |-> FALSE]

EnsureRequiredScopesAll(scopes) ==
  LET Absent(scope) == scope \notin Range(scopes)
  IN  IF Len(SelectSeq(REQUIRED_SCOPES, Absent)) > 0
      THEN AuthorizationError(
             MissingScopesPrefix \o Join(REQUIRED_SCOPES, CommaSpace), 403)
      ELSE Passed

EnsureRequiredScopes(scopes) ==
  LET Absent(scope) == scope \notin Range(scopes)
      missing == SelectSeq(REQUIRED_SCOPES, Absent)
  IN  IF Len(missing) > 0
      THEN AuthorizationError(
             MissingScopesPrefix \o Join(missing, CommaSpace), 403)
      ELSE Passed

\* new URL(value) succeeds on an absolute URL: a scheme (a letter, then
\* letters, digits, +, - or .) followed by a colon.
HasScheme(s) ==
  \E n \in 2..Len(s) :
    /\ s[n] = ":"
    /\ IndexIn(LowerCase, ToLowerChar(s[1])) > 0
    /\ \A i \in 2..(n - 1) :
         \/ IndexIn(LowerCase, ToLowerChar(s[i])) > 0
         \/ IsDigit(s[i])
         \/ s[i] \in {"+", "-", "."}

TryParseUrl(value) ==
  IF ~IsString(value) \/ Len(value.s) = 0 THEN Undefined
  ELSE IF HasScheme(value.s) THEN value ELSE Undefined

RECURSIVE FirstParsedUrl(_)
FirstParsedUrl(items) ==
  IF items = <<>> THEN Undefined
  ELSE IF TryParseUrl(Head(items)) # Undefined THEN TryParseUrl(Head(items))
  ELSE FirstParsedUrl(Tail(items))

ResolveResource(payload) ==
  LET aud == Get(payload, "aud")
      resource == Get(payload, "resource")
  IN  IF IsString(aud) THEN TryParseUrl(aud)
      ELSE IF IsArray(aud) /\ FirstParsedUrl(aud.items) # Undefined
      THEN FirstParsedUrl(aud.items)
      ELSE IF IsString(resource) THEN TryParseUrl(resource)
      ELSE Undefined

\* The deployment's configuration (config.ts reads it from the environment).
config ==
  [auth0Issuer |-> TxtIssuer,
   resourceServerUrl |-> Str(TxtResourceServer),
   expectedAudiences |-> << TxtAudienceA, TxtAudienceB >>]

AudienceOption ==
  IF Len(config.expectedAudiences) = 0 THEN Undefined
  ELSE IF Len(config.expectedAudiences) = 1
  THEN Str(config.expectedAudiences[1])
  ELSE Arr([i \in 1..Len(config.expectedAudiences) |->
              Str(config.expectedAudiences[i])])

\* The instant of every verification, in seconds since the epoch.
Now == DateUTCDays(2026, 0, 1) * 86400

\* jwtVerify's audience check: the aud claim is required, and it (or one of
\* its items) has to be one of the expected audiences.
AudienceAccepted(aud, audience) ==
  LET expected == IF IsArray(audience) THEN Range(audience.items)
                  ELSE {audience}
  IN  \/ IsString(aud) /\ aud \in expected
      \/ IsArray(aud) /\ Range(aud.items) \cap expected # {}

\* What `await jwtVerify(token, jwks, {issuer, audience})` settles to for a
\* decoded token, given the keys the key set resolved: the signature is
\* checked with the key of the token's key id, then the claims.
JwtVerify(jwt, keys, options) ==
  IF jwt.kid \notin keys THEN JoseError("JWKSNoMatchingKey")
  ELSE IF jwt.signedBy # jwt.kid
  THEN JoseError("JWSSignatureVerificationFailed")
  ELSE IF Get(jwt.payload, "iss") # Str(options.issuer)
  THEN JoseError("JWTClaimValidationFailed")
  ELSE IF /\ options.audience # Undefined
          /\ ~AudienceAccepted(Get(jwt.payload, "aud"), options.audience)
  THEN JoseError("JWTClaimValidationFailed")
  ELSE IF /\ Get(jwt.payload, "exp").t = "number"
          /\ Get(jwt.payload, "exp").n <= Now
  THEN JoseError("JWTExpired")
  ELSE [threw |-> FALSE, payload |-> jwt.payload]

\* The client id with the client_id claim taken before azp.
ClientIdFromClientIdFirst(payload) ==
  IF IsString(Get(payload, "client_id")) THEN Get(payload, "client_id")
  ELSE IF IsString(Get(payload, "azp")) THEN Get(payload, "azp")
  ELSE Str(TxtUnknownClient)

\* const clientId = typeof payload.azp === 'string' ? ... : 'unknown_client'
ClientId(payload) ==
  IF IsString(Get(payload, "azp")) THEN Get(payload, "azp")
  ELSE IF IsString(Get(payload, "client_id")) THEN Get(payload, "client_id")
  ELSE Str(TxtUnknownClient)

\* The scope check made for a token whatever jwtVerify said of it: a token
\* that failed verification counts as one without scopes.
EnsuredUnverified(verified) ==
  IF verified.threw THEN EnsureRequiredScopes(<<>>)
  ELSE EnsureRequiredScopes(ExtractScopes(verified.payload))

\* The rejection of jwtVerify leaves verifyBearerToken; only when jwtVerify
\* returned are the scopes of its payload extracted and checked.
Ensured(verified) ==
  IF verified.threw THEN verified
  ELSE IF Len(REQUIRED_SCOPES) > 0
       THEN EnsureRequiredScopes(ExtractScopes(verified.payload))
       ELSE Passed

\* verifyBearerToken after `await jwtVerify` settled.
VerifiedAuthInfo(token, verified) ==
  LET payload == verified.payload
      scopes == ExtractScopes(payload)
      ensured == Ensured(verified)
      subject == IF IsString(Get(payload, "sub")) THEN Get(payload, "sub")
                 ELSE Undefined
      clientId == ClientId(payload)
      expiresAt == IF Get(payload, "exp").t = "number" THEN Get(payload, "exp")
                   ELSE Undefined
      resourceUrl == Coalesce(ResolveResource(payload),
                              config.resourceServerUrl)
  IN  IF ensured.threw THEN ensured
      ELSE [threw |-> FALSE,
            authInfo |-> [token |-> token, clientId |-> clientId,
                          scopes |-> scopes, expiresAt |-> expiresAt,
                          resource |-> resourceUrl,
                          extra |-> [claims |-> payload, subject |-> subject]]]

\* The header taken as it was sent.
HeaderAsSent(text) == text

\* const trimmed = header.trim()
HeaderTrimmed(text) == Trim(text)

\* authenticateRequest up to the call of verifyBearerToken, and
\* verifyBearerToken up to `await jwtVerify`.
BearerToken(headers) ==
  LET header == Coalesce(Get(headers, "authorization"),
                         Get(headers, "Authorization"))
      trimmed == HeaderTrimmed(header.s)
      token == SliceFrom(trimmed, Len(BearerPrefix))
  IN  IF IsFalsy(header) \/ IsArray(header)
      THEN AuthorizationError(MsgMissingHeader, 401)
      ELSE IF ~StartsWith(ToLowerCase(trimmed), BearerPrefix)
      THEN AuthorizationError(MsgNotBearer, 401)
      ELSE IF token = <<>>
      THEN AuthorizationError(MsgMissingToken, 401)
      ELSE [threw |-> FALSE, token |-> token]

\* ------------------------------------------------------------------------
\* The signing-key set and POST /mcp (server.ts)
\* ------------------------------------------------------------------------

VARIABLES
  requests,   \* every POST /mcp in flight: its headers, its place in the
              \* handler, the handler's locals, req.auth and the response
  keyCache,   \* per key set: the key ids whose keys it holds
  inFlight,   \* per key set and key id: the key fetches in flight
  serverTransport,  \* the request whose transport the one McpServer of the
                    \* process is connected to, 0 for none
  cachedClient      \* openaiClient.ts: whether the OpenAI client is made

serverVars == <<serverTransport, cachedClient>>

gateVars == <<requests, keyCache, inFlight, serverVars>>

VARIABLES
  call,       \* one call of a function of trends.ts: its name and arguments
  returned    \* what that call returned

callVars == <<call, returned>>

vars == <<queryVars, gateVars, callVars>>

\* The key ids of the keys the issuer publishes.
PublishedKeys == {"k1", "k2"}

\* The key ids a token header may name.
KeyIds == PublishedKeys \cup {"k9"}

MaxRequests == 2

RequestIds == 1..MaxRequests

\* The key sets: the one the module creates when it is loaded.
ModuleJwks == 0

JwksPerCall(r) == r

\* The key set a verification for request r resolves its key with: `jwks`
\* is created once, at module load, and every call passes that same one.
Jwks(r) == ModuleJwks

JwksInstances == {ModuleJwks} \cup RequestIds

\* Tokens in circulation: the compact text and what it decodes to.  A text
\* that is none of these is not a JWT.
TokenPayload ==
  ("iss" :> Str(config.auth0Issuer)) @@ ("aud" :> Str(TxtAudienceA))
  @@ ("exp" :> Num(Now + 3600)) @@ ("sub" :> Str(TxtUser))
  @@ ("azp" :> Str(TxtApp)) @@ ("scope" :> Str(TxtAllScopes))

Without(obj, key) == [k \in DOMAIN obj \ {key} |-> obj[k]]

Signed(kid, payload) == [kid |-> kid, signedBy |-> kid, payload |-> payload]

WithScope(scope, scp) ==
  Signed("k1", ("scope" :> scope) @@ ("scp" :> scp) @@ TokenPayload)

IssuedTokens ==
  (<<"o","k","1">> :> Signed("k1", TokenPayload))
  @@ (<<"o","k","2">> :> Signed("k2",
       ("aud" :> Arr(<<Str(TxtAudienceOther), Str(TxtAudienceB)>>))
                             @@ Without(TokenPayload, "azp")))
  @@ (TokForged :> [kid |-> "k1", signedBy |-> "attacker",
                    payload |-> TokenPayload])
  @@ (TokRotated :> Signed("k9", TokenPayload))
  @@ (<<"i","s","s">> :> Signed("k1",
       ("iss" :> Str(TxtOtherIssuer)) @@ TokenPayload))
  @@ (<<"a","u","d">> :> Signed("k1",
       ("aud" :> Str(TxtAudienceZ)) @@ TokenPayload))
  @@ (TokNoAud :> Signed("k2", Without(TokenPayload, "aud")))
  @@ (<<"o","l","d">> :> Signed("k1",
       ("exp" :> Num(Now - 1)) @@ TokenPayload))
  @@ (<<"e","d","g","e">> :> Signed("k1",
       ("exp" :> Num(Now)) @@ TokenPayload))
  @@ (TokNoExp :> Signed("k1", Without(TokenPayload, "exp")))
  @@ (TokResource :> Signed("k1",
       ("resource" :> Str(TxtAudienceA)) @@ Without(TokenPayload, "aud")))
  @@ (TokClientId :> Signed("k2",
       ("client_id" :> Str(TxtClient)) @@ Without(TokenPayload, "azp")))
  @@ (TokBothIds :> Signed("k1",
       ("client_id" :> Str(TxtClient)) @@ TokenPayload))
  @@ (TokNoSub :> Signed("k1", Without(TokenPayload, "sub")))
  @@ (TokOldNoScopes :> Signed("k1",
       ("exp" :> Num(Now - 1)) @@ Without(TokenPayload, "scope")))
  @@ (TokForgedNoScopes :> [kid |-> "k2", signedBy |-> "attacker",
       payload |-> ("scope" :> Str(TxtScopesNoProfile)) @@ TokenPayload])
  @@ (TokOtherIssuerNoScopes :> Signed("k1",
       ("iss" :> Str(TxtOtherIssuer)) @@ ("scope" :> Str(TxtProfile))
       @@ TokenPayload))
  @@ (TokOtherAudienceNoScopes :> Signed("k2",
       ("aud" :> Str(TxtAudienceZ)) @@ Without(TokenPayload, "scope")))
  @@ (<<"s","1">> :> WithScope(Str(TxtScopesMixed), Undefined))
  @@ (<<"s","2">> :> WithScope(Str(TxtScopesNoProfile), Undefined))
  @@ (<<"s","3">> :> WithScope(Str(<<>>),
        Arr(<<Str(TxtOpenid), Str(TxtProfile), Str(TxtEmail)>>)))
  @@ (<<"s","4">> :> WithScope(Undefined,
        Arr(<<Str(TxtOpenid), Str(TxtProfilePadded), Str(TxtEmail)>>)))
  @@ (<<"s","5">> :> WithScope(Null, Arr(<<Str(TxtOpenid), Num(7)>>)))
  @@ (<<"s","6">> :> WithScope(Undefined, Undefined))
  @@ (<<"s","7">> :> WithScope(Str(TxtScopesRunTogether), Undefined))
  @@ (<<"s","8">> :> WithScope(Str(TxtProfile), Undefined))
  @@ (<<"s","9">> :> WithScope(Str(TxtScopesExtra), Undefined))
  @@ (<<"s","1","0">> :> WithScope(Num(5), Undefined))
  @@ (<<"s","1","1">> :> WithScope(Str(TxtScopesCapitalised), Undefined))

\* The protected header of a compact JWT, decoded before any key is
\* resolved; a text that is not a JWT makes jwtVerify reject.
DecodeJwt(token) ==
  IF token \in DOMAIN IssuedTokens THEN IssuedTokens[token] ELSE None

Bearer(text) == ("authorization" :> Str(TxtBearer \o text))

\* The headers a client may send.
TokenHeaders == {Bearer(token) : token \in DOMAIN IssuedTokens}

OtherHeaders ==
  { <<>>,
    ("authorization" :> Str(<<>>)),
    ("authorization" :> Arr(<<Str(TxtBearerOk1), Str(TxtBearerOk2)>>)),
    ("authorization" :> Str(TxtBasic)),
    ("authorization" :> Str(TxtBearerOnly)),
    ("authorization" :> Str(TxtBearer)),
    ("authorization" :> Str(TxtBearerBlank)),
    ("authorization" :> Str(TxtBearerOddCase)),
    ("authorization" :> Str(TxtBearerTwoSpaces)),
    ("authorization" :> Str(TxtBearerNotJwt)) }

AllHeaders == TokenHeaders \cup OtherHeaders

\* What concurrent clients send: nothing, a good token of either published
\* key, one of a key the issuer does not publish, one lacking a scope.
ConcurrentHeaders ==
  { <<>>, Bearer(<<"o","k","1">>), Bearer(<<"o","k","2">>),
    Bearer(TokRotated), Bearer(<<"s","2">>) }

NewRequest(headers) ==
  [pc |-> "received", headers |-> headers, token |-> None, authInfo |-> None,
   error |-> None, auth |-> None, handled |-> FALSE, response |-> None,
   onClose |-> FALSE, deliveredOn |-> 0]

\* The catch block of the handler.
ErrorResponse(error) ==
  IF error.name = "AuthorizationError"
  THEN [status |-> error.status,
        body |-> [jsonrpc |-> "2.0",
                  error |-> [code |-> error.status, message |-> error.message],
                  id |-> Null]]
  ELSE [status |-> 500,
        body |-> [jsonrpc |-> "2.0",
                  error |-> [code |-> -32603,
                             message |-> MsgInternal],
                  id |-> Null]]

\* The error leaves the handler: nothing is answered.
RejectedUncaught(req, error) ==
  [req EXCEPT !.pc = "done", !.error = error]

Rejected(req, error) ==
  [req EXCEPT !.pc = "done", !.error = error, !.response = ErrorResponse(error)]

\* An Error that is no AuthorizationError, thrown by the call named.
Fault(at) == [threw |-> TRUE, name |-> "Error", at |-> at]

\* The tools a JSON-RPC message may call; search and fetch use the OpenAI
\* client of getOpenAIClient().
Tools == {"search", "fetch", "airfare_trend_insights"}

\* getOpenAIClient(): the client is made on first use and kept.
GetOpenAIClient(cached, tool) == cached \/ tool \in {"search", "fetch"}

\* The transports the McpServer may send the response to a message on. The
\* server object is the one of the module and keeps one transport, the last
\* one connected and not closed since. Depending on the release of the
\* protocol library the response goes to the transport the server held when
\* the message was dispatched (the request's own) or to the one it holds
\* when the tool has finished (`connected`, 0 when it holds none).
ResponseTransports(r, connected) == {r, connected}

AfterAuthenticateUnchecked(req, outcome) ==
  IF outcome.threw THEN [req EXCEPT !.pc = "connect", !.error = outcome]
  ELSE [req EXCEPT !.pc = "connect", !.authInfo = outcome.authInfo]

\* `const authInfo = await authenticateRequest(req)` inside the try block:
\* a rejection goes to the catch block, a result lets the handler go on.
AfterAuthenticate(req, outcome) ==
  IF outcome.threw THEN Rejected(req, outcome)
  ELSE [req EXCEPT !.pc = "connect", !.authInfo = outcome.authInfo]

\* A miss on a key id: a fetch is started unless one for that key id is in
\* flight, which the caller then awaits.
KeyFetch(pending) == IF pending > 0 THEN pending ELSE pending + 1

\* POST /mcp arrives: the handler runs authenticateRequest up to the first
\* await, inside jwtVerify, where the key of the token's key id is resolved.
Receive(r) ==
  LET req == requests[r]
      bearer == BearerToken(req.headers)
      jwt == DecodeJwt(bearer.token)
      jwks == Jwks(r)
  IN  /\ req.pc = "received"
      /\ IF bearer.threw
         THEN /\ requests' = [requests EXCEPT ![r] =
                    AfterAuthenticate(req, bearer)]
              /\ UNCHANGED inFlight
         ELSE IF jwt = None
         THEN /\ requests' = [requests EXCEPT ![r] =
                    AfterAuthenticate([req EXCEPT !.token = bearer.token],
                                      JoseError("JWSInvalid"))]
              /\ UNCHANGED inFlight
         ELSE IF jwt.kid \in keyCache[jwks]
         THEN /\ requests' = [requests EXCEPT ![r] =
                    [req EXCEPT !.pc = "verify", !.token = bearer.token]]
              /\ UNCHANGED inFlight
         ELSE /\ requests' = [requests EXCEPT ![r] =
                    [req EXCEPT !.pc = "awaitKey", !.token = bearer.token]]
              /\ inFlight' = [inFlight EXCEPT ![jwks][jwt.kid] = KeyFetch(@)]
      /\ UNCHANGED <<keyCache, serverVars, queryVars, callVars>>

\* A key fetch completes: the key set now holds the published keys, and the
\* verifications that awaited the fetch go on.
FetchDone(jwks, kid) ==
  /\ inFlight[jwks][kid] > 0
  /\ inFlight' = [inFlight EXCEPT ![jwks][kid] = @ - 1]
  /\ keyCache' = [keyCache EXCEPT ![jwks] = PublishedKeys]
  /\ requests' = [r \in DOMAIN requests |->
       IF /\ requests[r].pc = "awaitKey"
          /\ Jwks(r) = jwks
          /\ DecodeJwt(requests[r].token).kid = kid
       THEN [requests[r] EXCEPT !.pc = "verify"]
       ELSE requests[r]]
  /\ UNCHANGED <<serverVars, queryVars, callVars>>

\* jwtVerify settles and verifyBearerToken runs to its end.
Verify(r) ==
  LET req == requests[r]
      verified == JwtVerify(DecodeJwt(req.token), keyCache[Jwks(r)],
                            [issuer |-> config.auth0Issuer,
                             audience |-> AudienceOption])
  IN  /\ req.pc = "verify"
      /\ requests' = [requests EXCEPT ![r] =
           AfterAuthenticate(req, VerifiedAuthInfo(req.token, verified))]
      /\ UNCHANGED <<keyCache, inFlight, serverVars, queryVars, callVars>>

\* A transport is made for the request and `await server.connect(transport)`
\* settles: the McpServer is now connected to this transport, or the call
\* threw.
Connect(r) ==
  LET req == requests[r]
  IN  /\ req.pc = "connect"
      /\ \/ /\ serverTransport' = r
            /\ requests' = [requests EXCEPT ![r] = [req EXCEPT !.pc = "handle"]]
         \/ /\ requests' = [requests EXCEPT ![r] =
                  Rejected(req, Fault("connect"))]
            /\ UNCHANGED serverTransport
      /\ UNCHANGED <<keyCache, inFlight, cachedClient, queryVars, callVars>>

\* The handler sets req.auth, registers the close callback and awaits
\* transport.handleRequest: the message is dispatched to its tool and the
\* response goes out on the transport the McpServer sends it on, which
\* answers the request only when it is the request's own; or the call threw.
HandleRequest(r) ==
  LET req == [requests[r] EXCEPT !.auth = requests[r].authInfo,
                                 !.onClose = TRUE]
  IN  /\ req.pc = "handle"
      /\ \/ \E tool \in Tools,
               transport \in ResponseTransports(r, serverTransport) :
              /\ requests' = [requests EXCEPT ![r] =
                   [req EXCEPT !.pc = "done", !.handled = TRUE,
                               !.deliveredOn = transport,
                               !.response =
                                 IF transport = r
                                 THEN [status |-> 200,
                                       body |-> [jsonrpc |-> "2.0"]]
                                 ELSE None]]
              /\ cachedClient' = GetOpenAIClient(cachedClient, tool)
         \/ /\ requests' = [requests EXCEPT ![r] =
                  Rejected(req, Fault("handleRequest"))]
            /\ UNCHANGED cachedClient
      /\ UNCHANGED <<keyCache, inFlight, serverTransport, queryVars, callVars>>

\* The response of the request closes: the close callback closes the
\* request's transport, on which the McpServer drops the transport it holds.
Close(r) ==
  LET req == requests[r]
  IN  /\ req.pc = "done" /\ req.onClose
      /\ requests' = [requests EXCEPT ![r] = [req EXCEPT !.pc = "closed"]]
      /\ serverTransport' = 0
      /\ UNCHANGED <<keyCache, inFlight, cachedClient, queryVars, callVars>>

CallIdle == call = None /\ returned = None

GateIdle ==
  /\ requests = <<>>
  /\ keyCache = [j \in JwksInstances |-> {}]
  /\ inFlight = [j \in JwksInstances |-> [k \in KeyIds |-> 0]]
  /\ serverTransport = 0
  /\ cachedClient = FALSE

QueryIdle ==
  /\ hostDate = NaN
  /\ dir = None
  /\ filters = None
  /\ loaded = None
  /\ result = None
  /\ reloaded = None
  /\ previous = None

GateStart ==
  /\ \E keys \in {{}, PublishedKeys} :
       keyCache = [j \in JwksInstances |-> keys]
  /\ inFlight = [j \in JwksInstances |-> [k \in KeyIds |-> 0]]
  /\ serverTransport = 0
  /\ cachedClient = FALSE
  /\ QueryIdle
  /\ CallIdle

\* Concurrent requests.
Init ==
  /\ requests \in [RequestIds -> {NewRequest(h) : h \in ConcurrentHeaders}]
  /\ GateStart

\* One request, any headers.
PostInit ==
  /\ requests \in {<<NewRequest(h)>> : h \in AllHeaders}
  /\ GateStart

Next ==
  \/ \E r \in DOMAIN requests : Receive(r)
  \/ \E j \in JwksInstances, k \in KeyIds : FetchDone(j, k)
  \/ \E r \in DOMAIN requests : Verify(r)
  \/ \E r \in DOMAIN requests : Connect(r)
  \/ \E r \in DOMAIN requests : HandleRequest(r)
  \/ \E r \in DOMAIN requests : Close(r)

Spec == Init /\ [][Next]_vars

SpecPost == PostInit /\ [][Next]_vars

\* ------------------------------------------------------------------------
\* The query specification: one directory, one call
\* ------------------------------------------------------------------------

QueryInit ==
  /\ hostDate \in HostDateOutcomes
  /\ dir \in Directories
  /\ filters = None
  /\ loaded = None
  /\ result = None
  /\ reloaded = None
  /\ previous = None
  /\ GateIdle
  /\ CallIdle

\* A caller awaits loadTrendDataset(dir).
Load ==
  /\ loaded = None /\ result = None
  /\ loaded' = LoadTrendDataset(dir)
  /\ UNCHANGED <<hostDate, dir, filters, result, reloaded, previous, gateVars,
               callVars>>

\* A caller awaits queryAirfareTrends(dir, f).
Query ==
  /\ loaded = None /\ result = None
  /\ \E f \in QueryInputs(dir) :
       /\ filters' = f
       /\ loaded' = DatasetRead(dir, loaded)
       /\ result' = QueryLoaded(dir, loaded', f)
  /\ UNCHANGED <<hostDate, dir, reloaded, previous, gateVars, callVars>>

\* A caller awaits loadTrendDataset(dir) once more: the directory is
\* unchanged, readdir may list its entries in another order.
Reload ==
  /\ loaded # None /\ result = None /\ reloaded = None
  /\ \E d \in Directories :
       /\ d.path = dir.path /\ d.listable = dir.listable
       /\ Range(d.entries) = Range(dir.entries)
       /\ reloaded' = [listing |-> d.entries, data |-> LoadTrendDataset(d)]
  /\ UNCHANGED <<hostDate, dir, filters, loaded, result, previous, gateVars,
               callVars>>

\* The directory changes and a caller that made a query without filters
\* awaits queryAirfareTrends(dir, f) again.
Requery ==
  /\ result # None /\ previous = None
  /\ ActiveFilters(filters) = {} /\ filters.limit = Null
  /\ \E d \in Changes(dir) :
       /\ previous' = [dir |-> dir, result |-> result]
       /\ dir' = d
       /\ loaded' = DatasetRead(d, loaded)
       /\ result' = QueryLoaded(d, loaded', filters)
  /\ UNCHANGED <<hostDate, filters, reloaded, gateVars, callVars>>

QueryNext == Load \/ Query \/ Reload

SpecQuery == QueryInit /\ [][QueryNext]_vars

\* Two queries of a directory of at most one entry, which changes between
\* them.
RequeryInit ==
  /\ QueryInit
  /\ dir.listable
  /\ Len(dir.entries) <= 1
  /\ Range(dir.entries) \subseteq EntryPool

RequeryNext == Query \/ Requery

SpecRequery == RequeryInit /\ [][RequeryNext]_vars

\* ------------------------------------------------------------------------
\* Single calls: buildRow on one raw record, the snapshot filter on one row
\* ------------------------------------------------------------------------

\* A JSON object: its fields by key.  The regions map is held as the entries
\* Object.entries yields, in their order.
Obj(fields) == [t |-> "object", fields |-> fields]

Regions(entries) == [t |-> "object", entries |-> entries]

\* value && typeof value === 'object': objects and arrays, not null.
IsObjectType(v) == v.t \in {"object", "array"}

\* { ...value }: the fields of an object, the items of an array by index.
Spread(v) ==
  IF IsArray(v)
  THEN [k \in {Digits[i] : i \in 1..Len(v.items)} |->
          v.items[IndexIn(Digits, k)]]
  ELSE IF "fields" \in DOMAIN v THEN v.fields
  ELSE <<>>

\* Object.entries(value)
ObjectEntries(v) ==
  IF IsArray(v)
  THEN [i \in 1..Len(v.items) |->
          [name |-> <<Digits[i]>>, value |-> v.items[i]]]
  ELSE IF "entries" \in DOMAIN v THEN v.entries
  ELSE <<>>

\* The defaults laid over the entry: every field of the entry is dropped.
MergedDefaultsWin(data, defaults) == defaults @@ data

\* const merged = { ...(defaults ?? {}), ...data }
Merged(data, defaults) == data @@ defaults

\* ingest(entry, defaults) for every entry that is an object.
RECURSIVE IngestAll(_, _, _)
IngestAll(items, defaults, sourceFile) ==
  IF items = <<>> THEN <<>>
  ELSE (IF IsObjectType(Head(items))
        THEN <<BuildRow(Merged(Spread(Head(items)), defaults), sourceFile,
                        <<"j","s","o","n">>)>>
        ELSE <<>>)
       \o IngestAll(Tail(items), defaults, sourceFile)

\* The rows of one region of the regions map.
RegionRows(regionName, regionPayload, weekValue, sourceFile) ==
  LET defaults == ("region" :> Str(regionName)) @@ ("week" :> weekValue)
                  @@ ("channel_checks" :>
                        Get(Spread(regionPayload), "channel_checks"))
      topQueries == Get(Spread(regionPayload), "top_queries")
  IN  IF ~IsObjectType(regionPayload) THEN <<>>
      ELSE IF IsArray(topQueries)
      THEN IngestAll(topQueries.items, defaults, sourceFile)
      ELSE IngestAll(<<regionPayload>>, defaults, sourceFile)

\* loadJsonRows(filePath) on the value JSON.parse returned.
LoadJsonRows(payload, sourceFile) ==
  LET regions == Get(Spread(payload), "regions")
      weekValue == Get(Spread(payload), "week")
      entries == ObjectEntries(regions)
      RECURSIVE OfRegions(_)
      OfRegions(i) ==
        IF i > Len(entries) THEN <<>>
        ELSE RegionRows(entries[i].name, entries[i].value, weekValue,
                        sourceFile) \o OfRegions(i + 1)
  IN  IF IsArray(payload) THEN IngestAll(payload.items, <<>>, sourceFile)
      ELSE IF ~IsObjectType(payload) THEN <<>>
      ELSE IF IsObjectType(regions) THEN OfRegions(1)
      ELSE IngestAll(<<payload>>, <<>>, sourceFile)

\* The names of the columns of the tabular files, by their text.
ColumnNames ==
  (<<"r","o","u","t","e">> :> "route")
  @@ (<<"a","i","r","l","i","n","e">> :> "airline")
  @@ (<<"q","u","e","r","y">> :> "query")
  @@ (<<"r","e","g","i","o","n">> :> "region")
  @@ (TxtJfkLhr :> "JFK-LHR") @@ (TxtAcmeAir :> "Acme Air")

\* The loop of loadTabularRows over the lines of the file.
RECURSIVE ScanLines(_, _, _, _)
ScanLines(lines, delimiter, headerLine, dataLines) ==
  IF lines = <<>> THEN [headerLine |-> headerLine, dataLines |-> dataLines]
  ELSE LET line == Head(lines)
           trimmed == Trim(line)
           comment == Trim(SliceFrom(trimmed, 1))
       IN  IF trimmed = <<>>
           THEN ScanLines(Tail(lines), delimiter, headerLine, dataLines)
           ELSE IF StartsWith(trimmed, <<"#">>)
           THEN IF headerLine = None /\ Includes(comment, <<delimiter>>)
                THEN ScanLines(Tail(lines), delimiter, comment, dataLines)
                ELSE ScanLines(Tail(lines), delimiter, headerLine, dataLines)
           ELSE ScanLines(Tail(lines), delimiter, headerLine,
                          Append(dataLines, line))

\* parseCsv(source, {columns: true, skip_empty_lines: true, delimiter}) of
\* lines without quotes: the first line names the columns, every other
\* line is a record, which has to have as many cells as there are columns.
ParseCsv(lines, delimiter) ==
  LET columns == SplitOn(Head(lines), delimiter, <<>>)
      Cells(i) == SplitOn(lines[i], delimiter, <<>>)
      Record(i) ==
        [key \in {ColumnNames[columns[c]] : c \in 1..Len(columns)} |->
           LET last == CHOOSE c \in 1..Len(columns) :
                         /\ ColumnNames[columns[c]] = key
                         /\ \A later \in (c + 1)..Len(columns) :
                              ColumnNames[columns[later]] # key
           IN  Str(Cells(i)[last])]
  IN  IF lines = <<>> THEN [threw |-> FALSE, columns |-> <<>>, records |-> <<>>]
      ELSE IF \E i \in 2..Len(lines) : Len(Cells(i)) # Len(columns) THEN Thrown
      ELSE [threw |-> FALSE, columns |-> columns,
            records |-> [i \in 1..(Len(lines) - 1) |-> Record(i + 1)]]

\* loadTabularRows(filePath, delimiter) on the lines of the file's content.
LoadTabularRows(lines, sourceFile, delimiter) ==
  LET scan == ScanLines(lines, delimiter, None, <<>>)
      csvSource == (IF scan.headerLine # None THEN <<scan.headerLine>>
                    ELSE <<>>) \o scan.dataLines
      parsed == ParseCsv(csvSource, delimiter)
      sourceFormat == IF delimiter = "\t" THEN <<"t","s","v">>
                      ELSE <<"c","s","v">>
  IN  IF scan.dataLines = <<>>
      THEN [threw |-> FALSE, columns |-> <<>>, records |-> <<>>, rows |-> <<>>]
      ELSE IF parsed.threw THEN Thrown
      ELSE [threw |-> FALSE, columns |-> parsed.columns,
            records |-> parsed.records,
            rows |-> [i \in 1..Len(parsed.records) |->
                        BuildRow(parsed.records[i], sourceFile, sourceFormat)]]

TxtMultiLeg == <<"J","F","K","-","L","H","R","-","C","D","G">>

TxtSpacedRoute == <<" ","J","F","K"," ","-"," ","L","H","R"," ">>

TxtNoOrigin == <<"-","L","H","R">>

TxtNoDestination == <<"J","F","K","-">>

TxtNonstop == <<"n","o","n","s","t","o","p">>

TxtBlank == <<" "," ">>

TxtTerm == <<"c","h","e","a","p">>

TxtSearchTerm == <<"l","a","s","t"," ","m","i","n","u","t","e">>

TxtProvider == <<"v","e","n","d","o","r">>

TxtCategory == <<"l","e","i","s","u","r","e">>

TxtTopic == <<"f","a","r","e"," ","w","a","r","s">>

\* One field of a raw record; None stands for a record without that key.
Field(key, value) == IF value = None THEN <<>> ELSE key :> value

\* The raw records buildRow is called on: every field absent or present,
\* the query field also null, empty or blank, the route in every shape.
RawRecords ==
  { Field("query", q) @@ Field("keyword", k) @@ Field("term", t)
      @@ Field("search_term", st) @@ Field("route", r)
      @@ Field("airline", a) @@ Field("season", se)
      @@ Field("provider", p) @@ Field("category", c) @@ Field("topic", tp) :
      q \in {None, Null, EmptyStr, Str(TxtBlank), Str(TxtFares)},
      k \in {None, EmptyStr, Str(TxtLhrDeals)},
      t \in {None, Str(TxtTerm)},
      st \in {None, Str(TxtSearchTerm)},
      r \in {None, EmptyStr, Str(TxtJfkLhr), Str(TxtMultiLeg),
             Str(TxtSpacedRoute), Str(TxtNoOrigin), Str(TxtNoDestination),
             Str(TxtNonstop)},
      a \in {None, Str(TxtAcmeAir)},
      se \in {None, Str(TxtSummer)},
      p \in {None, Str(TxtProvider)},
      c \in {None, Str(TxtCategory)},
      tp \in {None, Str(TxtTopic)} }

\* The file a record comes from and the format its suffix selects.
SourceFiles ==
  { [name |-> FileA.name, format |-> <<"c","s","v">>],
    [name |-> FileC.name, format |-> <<"t","s","v">>],
    [name |-> FileB.name, format |-> <<"j","s","o","n">>] }

TxtPeriod == <<"2","0","2","4","-","Q","3">>

TxtWeekId == <<"w","k","-","3","4">>

\* Records with the date fields in every shape: absent, null, empty, blank
\* or a text.
DatedRecords ==
  { Field("snapshot_date", sd) @@ Field("date", d) @@ Field("week", w)
      @@ Field("week_id", wi) @@ Field("period", pe) :
      sd \in {None, EmptyStr, Str(TxtBlank), Str(TxtDay19)},
      d \in {None, Null, EmptyStr, Str(TxtDay12Slash)},
      w \in {None, EmptyStr, Str(TxtWeek34)},
      wi \in {None, Str(TxtWeekId)},
      pe \in {None, Str(TxtPeriod)} }

BuildRowCalls ==
  { [fn |-> "buildRow", raw |-> raw, sourceFile |-> f.name,
     sourceFormat |-> f.format] : raw \in RawRecords, f \in SourceFiles }
  \cup
  { [fn |-> "buildRow", raw |-> raw, sourceFile |-> FileA.name,
     sourceFormat |-> <<"c","s","v">>] : raw \in DatedRecords }

Delimiters == {",", "\t"}

\* The other of the two delimiters.
OtherDelimiter(delimiter) == IF delimiter = "," THEN "\t" ELSE ","

MaxLines == 3

\* The lines a delimited file may hold: a blank line, a comment without
\* and one with the other delimiter, two commented-out header lines (one
\* indented), a header line and a line of data.
TabularLines(delimiter) ==
  { <<" ">>,
    <<"#"," ","v","e","n","d","o","r">>,
    <<"#">> \o Join(<<<<"q","u","e","r","y">>, <<"r","e","g","i","o","n">>>>,
                    <<OtherDelimiter(delimiter)>>),
    <<"#"," ">> \o Join(<<<<"r","o","u","t","e">>,
                          <<"a","i","r","l","i","n","e">>>>, <<delimiter>>),
    <<" "," ","#">> \o Join(<<<<"q","u","e","r","y">>,
                              <<"r","e","g","i","o","n">>>>, <<delimiter>>),
    Join(<<<<"r","o","u","t","e">>, <<"q","u","e","r","y">>>>, <<delimiter>>),
    Join(<<TxtJfkLhr, TxtAcmeAir>>, <<delimiter>>) }

\* The files of up to MaxLines lines.
TabularFiles(delimiter) ==
  UNION { [1..n -> TabularLines(delimiter)] : n \in 0..MaxLines }

LoadTabularCalls ==
  UNION { { [fn |-> "loadTabularRows", lines |-> lines, delimiter |-> d] :
              lines \in TabularFiles(d) } : d \in Delimiters }

TxtEU == <<"E","U">>

TxtUS == <<"U","S">>

TxtAPAC == <<"A","P","A","C">>

TxtChecks == <<"s","o","f","t"," ","d","e","m","a","n","d">>

\* The entries of a top_queries array: an entry with a query alone, one
\* that names every default field itself, and entries that are no object.
QueryEntry == Obj([query |-> Str(TxtFares)])

OverridingEntry ==
  Obj([query |-> Str(TxtLhrDeals), region |-> Str(TxtAPAC),
       week |-> Str(TxtDay19), channel_checks |-> Str(TxtStrike)])

TopQueries ==
  { <<>>, <<QueryEntry>>, <<QueryEntry, Null, OverridingEntry>>,
    <<Str(TxtFares), OverridingEntry>>, <<Arr(<<>>)>> }

\* What a region of the regions map may hold: a top_queries array with or
\* without channel_checks, a region that is a row itself, top_queries
\* that is no array, and values that are no object.
RegionValues ==
  { Obj([top_queries |-> Arr(items), channel_checks |-> Str(TxtChecks)]) :
      items \in TopQueries }
  \cup
  { Obj([top_queries |-> Arr(<<QueryEntry>>)]),
    Obj([query |-> Str(TxtFares), channel_checks |-> Str(TxtChecks)]),
    Obj([query |-> Str(TxtFares), region |-> Str(TxtAPAC),
         top_queries |-> Str(TxtFares)]),
    Obj(<<>>), Null, Str(TxtFares), Num(3), Arr(<<>>) }

RegionMaps ==
  { Regions(<<>>) }
  \cup { Regions(<<[name |-> TxtEU, value |-> v]>>) : v \in RegionValues }
  \cup { Regions(<<[name |-> TxtEU, value |-> v], [name |-> TxtUS, value |-> w]>>) :
           v \in RegionValues, w \in RegionValues }

JsonPayloads ==
  { Obj(Field("regions", regions) @@ Field("week", week)) :
      regions \in RegionMaps, week \in {None, Str(TxtWeek34)} }
  \cup
  { Arr(<<QueryEntry, Str(TxtFares), OverridingEntry>>),
    Obj([query |-> Str(TxtFares), regions |-> Str(TxtEU)]),
    Str(TxtFares), Null }

LoadJsonCalls == { [fn |-> "loadJsonRows", payload |-> v] : v \in JsonPayloads }

\* %04d of a year, %02d of a month, day or week number.
Pad(n, width) ==
  LET digits == NatToString(n)
  IN  [i \in 1..(width - Len(digits)) |-> "0"] \o digits

WeekText(year, week) == Pad(year, 4) \o <<"-","W">> \o Pad(week, 2)

DayText(year, month, day) ==
  Pad(year, 4) \o <<"-">> \o Pad(month, 2) \o <<"-">> \o Pad(day, 2)

\* Years whose January 4 falls on a Sunday (2015, 2026), a Thursday (2024)
\* and a year below 100; the weeks 00, 01, 34 and 53.
WeekYears == {24, 2015, 2024, 2026}

WeekNumbers == {0, 1, 34, 53}

WeekTexts == { WeekText(y, w) : y \in WeekYears, w \in WeekNumbers }

FilterDays ==
  { DayText(2024, 8, d) : d \in {12, 18, 19, 20, 26} }
  \cup { DayText(2023, 8, 19), DayText(1924, 8, 18), DayText(24, 8, 18),
         <<"2","0","2","4","/","0","8","/","1","9">>, TxtWeek34,
         LegacyDateText }

SnapshotFilterCalls ==
  { [fn |-> "snapshotFilter", rowDate |-> rd, filterDate |-> fd] :
      rd \in WeekTexts, fd \in FilterDays }

NoFilters ==
  [ snapshotDate |-> Null, routeContains |-> Null, originAirport |-> Null,
    destinationAirport |-> Null, airlineContains |-> Null,
    seasonContains |-> Null, notableContains |-> Null, limit |-> Null ]

CallInit ==
  /\ call \in BuildRowCalls \cup SnapshotFilterCalls \cup LoadTabularCalls
            \cup LoadJsonCalls
  /\ returned = None
  /\ hostDate \in (IF call.fn = "buildRow" THEN {NaN} ELSE HostDateOutcomes)
  /\ dir = None /\ filters = None /\ loaded = None /\ result = None
  /\ reloaded = None
  /\ previous = None
  /\ GateIdle

\* buildRow(raw, sourceFile, sourceFormat) returns.
BuildOne ==
  /\ call # None /\ call.fn = "buildRow" /\ returned = None
  /\ returned' = BuildRow(call.raw, call.sourceFile, call.sourceFormat)
  /\ UNCHANGED <<call, queryVars, gateVars>>

\* The filter callback of queryAirfareTrends on a row that buildRow made of
\* a record with that snapshot_date, under a snapshotDate filter alone:
\* the row's date and whether the row is kept.
FilterOne ==
  /\ call # None /\ call.fn = "snapshotFilter" /\ returned = None
  /\ LET row == BuildRow([snapshot_date |-> Str(call.rowDate)],
                         FileA.name, <<"c","s","v">>)
         f == [NoFilters EXCEPT !.snapshotDate = Str(call.filterDate)]
     IN  returned' = [ snapshot |-> RowSnapshot(row),
                       target |-> ParseIsoDate(f.snapshotDate),
                       kept |-> RowMatches(row, f) ]
  /\ UNCHANGED <<call, queryVars, gateVars>>

\* loadTabularRows(filePath, delimiter) returns or throws.
LoadTabular ==
  /\ call # None /\ call.fn = "loadTabularRows" /\ returned = None
  /\ returned' = LoadTabularRows(call.lines,
                    IF call.delimiter = "\t" THEN FileC.name ELSE FileA.name,
                    call.delimiter)
  /\ UNCHANGED <<call, queryVars, gateVars>>

\* loadJsonRows(filePath) returns.
LoadJson ==
  /\ call # None /\ call.fn = "loadJsonRows" /\ returned = None
  /\ returned' = [rows |-> LoadJsonRows(call.payload, FileB.name)]
  /\ UNCHANGED <<call, queryVars, gateVars>>

CallNext == BuildOne \/ FilterOne \/ LoadTabular \/ LoadJson

SpecCall == CallInit /\ [][CallNext]_vars

\* ------------------------------------------------------------------------
\* Properties of the request gate (checked under Spec and SpecPost)
\* ------------------------------------------------------------------------

VerifyOptions == [issuer |-> config.auth0Issuer, audience |-> AudienceOption]

\* The token of the request is a JWT that passes the signature, issuer,
\* audience and expiry checks against the issuer's published keys.
TokenVerifies(req) ==
  /\ req.token # None
  /\ DecodeJwt(req.token) # None
  /\ ~JwtVerify(DecodeJwt(req.token), PublishedKeys, VerifyOptions).threw

\* The required scopes the token of the request does not carry.
RequiredMissing(req) ==
  {scope \in Range(REQUIRED_SCOPES) :
     scope \notin Range(ExtractScopes(DecodeJwt(req.token).payload))}

\* The request was answered without having been authenticated.
AuthFailed(req) ==
  /\ req.pc = "done" /\ ~req.handled
  /\ req.error # None /\ req.error.name # "Error"

\* authenticateRequest has returned or thrown.
AuthenticationEnded(req) == req.pc \in {"connect", "handle", "done", "closed"}

\* The error authenticateRequest threw, None when it returned.
AuthError(req) ==
  IF req.error # None /\ req.error.name # "Error" THEN req.error ELSE None

\* The Authorization header is absent or is not a Bearer header.
HeaderRefused(req) == BearerToken(req.headers).threw

\* The token is a JWT that fails the signature check (or names a key the
\* issuer does not publish), the issuer, the audience or the expiry check.
TokenRefused(req) ==
  /\ req.token # None
  /\ DecodeJwt(req.token) # None
  /\ JwtVerify(DecodeJwt(req.token), PublishedKeys, VerifyOptions).threw

ErrorEnvelope(response, code) ==
  /\ response.body.jsonrpc = "2.0"
  /\ response.body.error.code = code
  /\ response.body.id = Null

\* C1 (does not hold): every POST /mcp whose authentication failed for another
\* reason than missing scopes (no or malformed Authorization header, bad
\* signature, unknown key or issuer, audience mismatch, expired token) is
\* answered with status 401 and the JSON-RPC error envelope, never with 500.
C1_AuthFailureAnswered401 ==
  \A r \in DOMAIN requests :
    LET req == requests[r]
    IN  AuthFailed(req) /\ (HeaderRefused(req) \/ TokenRefused(req))
        => req.response.status = 401 /\ ErrorEnvelope(req.response, 401)

\* C2: for a token that passes the signature, issuer, audience and expiry
\* checks, verification fails with the 403 AuthorizationError exactly when a
\* required scope is missing, and the error's message names the missing
\* required scopes and no other required scope.
C2_MissingScopesForbidden ==
  \A r \in DOMAIN requests :
    LET req == requests[r]
        named == SliceFrom(req.error.message, Len(MissingScopesPrefix))
    IN  AuthenticationEnded(req) /\ TokenVerifies(req)
        => IF RequiredMissing(req) # {}
           THEN /\ req.error # None
                /\ req.error.name = "AuthorizationError"
                /\ req.error.status = 403
                /\ StartsWith(req.error.message, MissingScopesPrefix)
                /\ \A scope \in Range(REQUIRED_SCOPES) :
                     Includes(named, scope) <=> scope \in RequiredMissing(req)
                /\ req.response.status = 403
           ELSE AuthError(req) = None /\ req.authInfo # None

\* C2 witness: a verified token lacking openid and email, but not profile,
\* was refused.
C2_Witness ==
  \E r \in DOMAIN requests :
    /\ requests[r].pc = "done"
    /\ TokenVerifies(requests[r])
    /\ RequiredMissing(requests[r]) = {TxtOpenid, TxtEmail}
    /\ requests[r].response.status = 403

\* C3: transport.handleRequest is called for a request only after
\* authenticateRequest returned an identity for that same request: req.auth
\* is that identity, and the identity's token is the request's own.
C3_HandledOnlyAuthenticated ==
  \A r \in DOMAIN requests :
    LET req == requests[r]
    IN  req.handled
        => /\ req.authInfo # None
           /\ req.error = None
           /\ req.auth = req.authInfo
           /\ req.auth.token = BearerToken(req.headers).token

\* C3 witness: of two requests in flight one was handled and one was
\* refused.
C3_Witness ==
  \E r, q \in DOMAIN requests :
    /\ requests[r].handled /\ requests[r].auth # None
    /\ AuthFailed(requests[q])

\* The verifications that await the key of a key id.
AwaitingKey(kid) ==
  {r \in DOMAIN requests :
     requests[r].pc = "awaitKey" /\ DecodeJwt(requests[r].token).kid = kid}

\* The fetches in flight for a key id, over all key sets.
FetchesInFlight(kid) ==
  LET RECURSIVE UpTo(_)
      UpTo(j) == IF j < ModuleJwks THEN 0 ELSE inFlight[j][kid] + UpTo(j - 1)
  IN  UpTo(MaxRequests)

\* C4: whatever the number of concurrent verifications whose tokens carry
\* the same unknown key id, at most one key fetch for that key id is in
\* flight, and exactly one while any of them awaits the key.
C4_SingleFlight ==
  \A kid \in KeyIds :
    /\ FetchesInFlight(kid) <= 1
    /\ AwaitingKey(kid) # {} => FetchesInFlight(kid) = 1

\* C4 witness: every request in flight awaits the key of k1, which one fetch
\* is bringing.
C4_Witness ==
  /\ Cardinality(AwaitingKey("k1")) = MaxRequests
  /\ FetchesInFlight("k1") = 1

\* ------------------------------------------------------------------------
\* Properties of the loader and the query engine (checked under SpecQuery)
\* ------------------------------------------------------------------------

RECURSIVE Flatten(_)
Flatten(seqs) == IF seqs = <<>> THEN <<>> ELSE Head(seqs) \o Flatten(Tail(seqs))

\* The supported files of a listing in file-name order.
SupportedInOrder(d) ==
  SortEntries(SelectSeq(d.entries, IsSupportedFile))

FileParses(file) == file.content.parses

\* The rows of the files that parsed, file after file.
RowsOfParsedFiles(d) ==
  LET parsed == SelectSeq(SupportedInOrder(d), FileParses)
  IN  Flatten([i \in 1..Len(parsed) |->
        LoadTrendRowsFromFile(parsed[i], SuffixOf(parsed[i].name)).rows])

SomeFileFails(d) == \E i \in 1..Len(d.entries) :
  IsSupportedFile(d.entries[i]) /\ ~FileParses(d.entries[i])

\* C5: a parse failure of one file never aborts loadTrendDataset: for every
\* directory the call returns (it raises nothing) and the rows are exactly
\* the concatenation of the rows of the files that parsed.
C5_ParseFailureNeverAborts ==
  loaded # None =>
    /\ ~loaded.threw
    /\ loaded.rows = (IF dir.listable THEN RowsOfParsedFiles(dir) ELSE <<>>)

\* C5 witness: a load of a directory in which one file failed to parse and
\* another file contributed rows.
C5_Witness ==
  /\ loaded # None /\ ~loaded.threw
  /\ SomeFileFails(dir) /\ Len(loaded.rows) > 0

\* C6 (does not hold): availableFiles lists exactly the supported files that
\* were parsed successfully; a file whose parsing failed is not listed.
C6_FailedFilesExcluded ==
  (loaded # None /\ ~loaded.threw /\ dir.listable) =>
    loaded.availableFiles = FileNames(SelectSeq(SupportedInOrder(dir), FileParses))

\* The effective limit as the specification states it: the requested limit,
\* or 25 when absent, clamped to 1..200.
ClampedLimit(limit) ==
  LET requested == IF IsNullish(limit) THEN 25 ELSE limit.n
  IN  IF requested < 1 THEN 1 ELSE IF requested > 200 THEN 200 ELSE requested

\* C7: queryAirfareTrends returns the first min(matched_rows, effective
\* limit) rows of the sorted matched set, the effective limit being the
\* requested limit (25 when absent) clamped to 1..200.
C7_LimitClamped ==
  (result # None /\ ~result.threw) =>
    LET sorted == SortRows(FilterRows(loaded.rows, filters))
        count == Min(Len(sorted), ClampedLimit(filters.limit))
    IN  /\ result.rows = SubSeq(sorted, 1, count)
        /\ result.matched_rows = Len(sorted)
        /\ result.rows_returned = Min(result.matched_rows, ClampedLimit(filters.limit))

\* C7 witness: a query with limit 1000 over more than 200 matched rows
\* returned exactly 200 of them.
C7_Witness ==
  /\ result # None /\ ~result.threw
  /\ filters.limit = Num(1000)
  /\ result.matched_rows > 200
  /\ Len(result.rows) = 200

\* C26 (checked under SpecRequery): dataset reads are not cached across
\* queries: a query made after a file was added to the directory, removed
\* from it or rewritten reports the rows, the count of rows and the files
\* of the directory as it is when that query is made.
C26_QueriesReadAfresh ==
  previous # None =>
    LET rows == RowsOfParsedFiles(dir)
        sorted == SortRows(FilterRows(rows, filters))
    IN  /\ ~result.threw
        /\ result.total_rows = Len(rows)
        /\ result.available_files = FileNames(SupportedInOrder(dir))
        /\ result.rows = SubSeq(sorted, 1, Min(Len(sorted),
                                               ClampedLimit(filters.limit)))

\* C26 witness: a file was added between two queries and the second query
\* reports more rows and one more file than the first.
C26_Witness ==
  /\ previous # None
  /\ Len(dir.entries) = Len(previous.dir.entries) + 1
  /\ result.total_rows > previous.result.total_rows
  /\ previous.result.total_rows > 0
  /\ Len(result.available_files) = Len(previous.result.available_files) + 1
  /\ result.rows # previous.result.rows

\* C29: for every dataset and every filter set, the limit being an integer
\* or absent, the result has rows_returned = length(rows) <= matched_rows
\* <= total_rows, rows_returned <= 200, and rows_returned >= 1 whenever
\* matched_rows >= 1.
C29_CountsOrdered ==
  (result # None /\ ~result.threw) =>
    /\ result.rows_returned = Len(result.rows)
    /\ result.rows_returned <= result.matched_rows
    /\ result.matched_rows <= result.total_rows
    /\ result.rows_returned <= 200
    /\ result.matched_rows >= 1 => result.rows_returned >= 1

\* C29 witness: a query with a negative limit over several matched rows
\* returned one row; so did fewer rows match than the dataset holds.
C29_Witness ==
  /\ result # None /\ ~result.threw
  /\ filters.limit = Num(-3)
  /\ result.matched_rows >= 2
  /\ result.rows_returned = 1
  /\ Len(result.rows) = 1

\* C8 (does not hold): every result, the one for a dataset without rows
\* included, reports the three counts and echoes the filters applied, the
\* limit as the clamped effective limit.
C8_EchoesClampedLimit ==
  (result # None /\ ~result.threw) =>
    /\ {"total_rows", "matched_rows", "rows_returned"} \subseteq DOMAIN result
    /\ result.filters =
         [ snapshot_date |-> filters.snapshotDate,
           route_contains |-> filters.routeContains,
           origin_airport |-> filters.originAirport,
           destination_airport |-> filters.destinationAirport,
           airline_contains |-> filters.airlineContains,
           season_contains |-> filters.seasonContains,
           notable_contains |-> filters.notableContains,
           limit |-> Num(ClampedLimit(filters.limit)) ]

\* C9 (does not hold): under a non-empty snapshotDate filter every matched row
\* has a snapshot_date that parses, and it parses to the date of the
\* filter value.
C9_SnapshotFilterExact ==
  (result # None /\ ~result.threw
     /\ IsString(filters.snapshotDate) /\ filters.snapshotDate.s # <<>>) =>
    \A i \in 1..Len(result.rows) :
      /\ RowSnapshot(result.rows[i]) # Undefined
      /\ RowSnapshot(result.rows[i]) = ParseIsoDate(filters.snapshotDate)

AirlineOf(row) == StringOf(Coalesce(Get(row, "airline"), EmptyStr))

\* Row a may stand directly before row b: a later date first, a dated row
\* before an undated one; on equal dates the smaller route (query when
\* there is no route) first; on equal routes the smaller airline first.
InOrder(a, b) ==
  LET da == RowSnapshot(a)
      db == RowSnapshot(b)
  IN  \/ da # Undefined /\ db = Undefined
      \/ da # Undefined /\ db # Undefined /\ da.time > db.time
      \/ /\ da = db
         /\ \/ LocaleCompare(RouteOrQuery(a), RouteOrQuery(b)) < 0
            \/ /\ RouteOrQuery(a) = RouteOrQuery(b)
               /\ LocaleCompare(AirlineOf(a), AirlineOf(b)) <= 0

\* C10: the returned rows are ordered by snapshot date descending with the
\* undated rows last, then by route (or query) ascending, then by airline
\* ascending with the empty airline first: no two adjacent rows violate it.
C10_RowsOrdered ==
  (result # None /\ ~result.threw) =>
    \A i \in 1..(Len(result.rows) - 1) : InOrder(result.rows[i], result.rows[i + 1])

\* C10 witness: a result in which the sort changed the load order, a dated
\* row precedes an undated one, and two rows of one route and date are
\* told apart by the airline, the empty airline first.
C10_Witness ==
  /\ result # None /\ ~result.threw
  /\ filters.limit = Null
  /\ result.rows # FilterRows(loaded.rows, filters)
  /\ \E i \in 1..(Len(result.rows) - 1) :
       /\ RowSnapshot(result.rows[i]) # Undefined
       /\ RowSnapshot(result.rows[i + 1]) = Undefined
  /\ \E i \in 1..(Len(result.rows) - 1) :
       /\ RowSnapshot(result.rows[i]) = RowSnapshot(result.rows[i + 1])
       /\ RouteOrQuery(result.rows[i]) = RouteOrQuery(result.rows[i + 1])
       /\ AirlineOf(result.rows[i]) = <<>>
       /\ AirlineOf(result.rows[i + 1]) # <<>>

\* ------------------------------------------------------------------------
\* Properties of verifyBearerToken (checked under SpecPost)
\* ------------------------------------------------------------------------

\* The texts of the token's aud claim: of a string, or of the items of an
\* array.
AudienceValues(payload) ==
  LET aud == Get(payload, "aud")
  IN  IF IsString(aud) THEN {aud.s}
      ELSE IF IsArray(aud) THEN {item.s : item \in Range(aud.items)}
      ELSE {}

\* The audience check as documented: a configured audience is among the
\* values of aud or, for a token without aud, is the resource claim.
DocumentedAudienceCheck(payload) ==
  IF "aud" \in DOMAIN payload
  THEN AudienceValues(payload) \cap Range(config.expectedAudiences) # {}
  ELSE /\ IsString(Get(payload, "resource"))
       /\ Get(payload, "resource").s \in Range(config.expectedAudiences)

\* The request was answered 403.
Forbidden(req) == req.response # None /\ req.response.status = 403

\* C27: a request is answered 403 only when its token has passed the
\* signature, issuer, audience and expiry checks: a token that fails one of
\* them and lacks required scopes as well is never answered 403.
C27_ForbiddenOnlyVerified ==
  \A r \in DOMAIN requests :
    LET req == requests[r]
    IN  /\ Forbidden(req) => TokenVerifies(req) /\ RequiredMissing(req) # {}
        /\ (/\ req.pc = "done"
            /\ req.token # None
            /\ DecodeJwt(req.token) # None
            /\ ~TokenVerifies(req)) => ~Forbidden(req)

\* C27 witness: an expired token without any scope was refused, and not
\* with 403.
C27_Witness ==
  \E r \in DOMAIN requests :
    /\ requests[r].pc = "done"
    /\ requests[r].token # None
    /\ requests[r].token = TokOldNoScopes
    /\ RequiredMissing(requests[r]) = Range(REQUIRED_SCOPES)
    /\ requests[r].error # None
    /\ requests[r].response.status # 403

\* What the header has to be for authenticateRequest to go on to
\* verifyBearerToken: a single text that, trimmed, starts with "Bearer " in
\* any case and has at least one character after it.
BearerHeader(headers) ==
  /\ "authorization" \in DOMAIN headers
  /\ headers["authorization"].t = "string"
  /\ LET text == Trim(headers["authorization"].s)
     IN  /\ Len(text) > Len(BearerPrefix)
         /\ ToLowerCase(SubSeq(text, 1, Len(BearerPrefix))) = BearerPrefix

\* The messages of the errors authenticateRequest throws itself.
HeaderMessages == {MsgMissingHeader, MsgNotBearer}

\* C30: authenticateRequest never passes an empty token to
\* verifyBearerToken: a request whose header is absent, an array, or after
\* trimming is not "Bearer " (in any case) followed by at least one
\* character is rejected by authenticateRequest itself with the 401
\* AuthorizationError, before any verification and any key fetch, and every
\* other request goes on with a token that is not empty.
C30_NoEmptyToken ==
  \A r \in DOMAIN requests :
    LET req == requests[r]
    IN  req.pc # "received" =>
          IF BearerHeader(req.headers)
          THEN req.token # None /\ req.token # <<>>
          ELSE /\ req.pc = "done"
               /\ req.token = None
               /\ req.error.name = "AuthorizationError"
               /\ req.error.status = 401
               /\ req.error.message \in HeaderMessages
               /\ req.response.status = 401
               /\ \A k \in KeyIds : inFlight[Jwks(r)][k] = 0

\* C30 witness: the header "Bearer " followed by nothing was refused as not
\* being a Bearer token.
C30_Witness ==
  \E r \in DOMAIN requests :
    /\ requests[r].pc = "done"
    /\ requests[r].headers = ("authorization" :> Str(TxtBearer))
    /\ requests[r].error # None
    /\ requests[r].error.message = MsgNotBearer
    /\ requests[r].response.status = 401

\* The token of the request is a JWT that passes the signature, issuer and
\* expiry checks, whatever its audience.
PassesButForAudience(req) ==
  /\ req.token # None
  /\ DecodeJwt(req.token) # None
  /\ ~JwtVerify(DecodeJwt(req.token), PublishedKeys,
                [issuer |-> config.auth0Issuer, audience |-> Undefined]).threw

\* Verification of the request's token ended with an error of jwtVerify.
VerifyRejected(req) ==
  AuthError(req) # None /\ AuthError(req).name # "AuthorizationError"

\* C18 (does not hold): the audience check succeeds when a configured
\* audience equals a value of the token's aud claim (a string or an
\* array) and, for a token without aud claim, when its resource claim
\* equals a configured audience; otherwise verification fails.
C18_AudienceOrResource ==
  \A r \in DOMAIN requests :
    LET req == requests[r]
    IN  (AuthenticationEnded(req) /\ PassesButForAudience(req)) =>
          (VerifyRejected(req)
             <=> ~DocumentedAudienceCheck(DecodeJwt(req.token).payload))

\* The token is signed by a published key, names the configured issuer and
\* a configured audience, carries every required scope and expires later.
GoodToken(jwt) ==
  /\ jwt.kid \in PublishedKeys
  /\ jwt.signedBy = jwt.kid
  /\ Get(jwt.payload, "iss") = Str(config.auth0Issuer)
  /\ AudienceValues(jwt.payload) \cap Range(config.expectedAudiences) # {}
  /\ Range(REQUIRED_SCOPES) \subseteq Range(ExtractScopes(jwt.payload))
  /\ Get(jwt.payload, "exp").t = "number"
  /\ Get(jwt.payload, "exp").n > Now

\* azp, else the client_id claim, else the sentinel.
DocumentedClientId(payload) ==
  IF "azp" \in DOMAIN payload THEN payload["azp"]
  ELSE IF "client_id" \in DOMAIN payload THEN payload["client_id"]
  ELSE Str(TxtUnknownClient)

\* C19: for a token signed by a published key, with the configured issuer,
\* a configured audience, every required scope and a later expiry,
\* verifyBearerToken returns an identity whose subject is the sub claim,
\* whose scopes are the parsed scope list, whose expiry is exp and whose
\* client id is azp, else client_id, else 'unknown_client'.
C19_GoodTokenIdentity ==
  \A r \in DOMAIN requests :
    LET req == requests[r]
        payload == DecodeJwt(req.token).payload
    IN  (/\ AuthenticationEnded(req)
         /\ req.token # None
         /\ DecodeJwt(req.token) # None
         /\ GoodToken(DecodeJwt(req.token))) =>
          /\ AuthError(req) = None
          /\ req.authInfo # None
          /\ req.authInfo.extra.subject = Get(payload, "sub")
          /\ req.authInfo.scopes = ExtractScopes(payload)
          /\ req.authInfo.expiresAt = Get(payload, "exp")
          /\ req.authInfo.clientId = DocumentedClientId(payload)

\* C19 witness: a token with both azp and client_id was verified and the
\* identity names azp as client.
C19_Witness ==
  \E r \in DOMAIN requests :
    /\ AuthenticationEnded(requests[r])
    /\ requests[r].token # None
    /\ requests[r].token = TokBothIds
    /\ GoodToken(DecodeJwt(requests[r].token))
    /\ requests[r].authInfo # None
    /\ requests[r].authInfo.clientId = Str(TxtApp)
    /\ requests[r].authInfo.extra.subject = Str(TxtUser)

\* ------------------------------------------------------------------------
\* Properties of the request handler (checked under Spec)
\* ------------------------------------------------------------------------

\* The requests whose handler has connected the server and has not finished.
Handling == {r \in DOMAIN requests : requests[r].pc = "handle"}

\* C21 (does not hold): concurrent POST /mcp requests share no mutable state
\* but the key cache: while a request is being handled the server is
\* connected to that request's transport, whatever the other requests do,
\* and the response to a handled request is delivered on the request's own
\* transport.
C21_RequestsIsolated ==
  \A r \in DOMAIN requests :
    /\ r \in Handling => serverTransport = r
    /\ requests[r].handled => requests[r].deliveredOn = r

\* An error that is no AuthorizationError was raised while the request was
\* handled: by jwtVerify, by server.connect or by transport.handleRequest.
Faulted(req) ==
  /\ req.pc \in {"done", "closed"}
  /\ req.error # None
  /\ req.error.name # "AuthorizationError"

BuildRowReturned ==
  call # None /\ call.fn = "buildRow" /\ returned # None

\* The record has a text under the key that is not blank.
HasText(raw, key) ==
  /\ key \in DOMAIN raw
  /\ IsString(raw[key])
  /\ Trim(raw[key].s) # <<>>

TextOf(raw, key) == IF HasText(raw, key) THEN Trim(raw[key].s) ELSE <<>>

QuerySourceKeys ==
  { "query", "keyword", "term", "search_term", "route", "airline", "season",
    "provider", "category", "topic" }

\* C11: every row buildRow returns has a non-empty query, and a record
\* with no text under any of the keys the query is taken or derived from
\* gets the name of its source file as query.
C11_QueryNeverEmpty ==
  BuildRowReturned =>
    /\ IsString(returned.query)
    /\ returned.query.s # <<>>
    /\ (\A key \in QuerySourceKeys : ~HasText(call.raw, key))
         => returned.query.s = call.sourceFile

C11_Witness ==
  /\ BuildRowReturned
  /\ \A key \in QuerySourceKeys : ~HasText(call.raw, key)
  /\ "query" \in DOMAIN call.raw
  /\ returned.query.s = call.sourceFile

\* The first of the keys under which the record has a non-blank text.
RECURSIVE FirstNonEmpty(_, _)
FirstNonEmpty(raw, keys) ==
  IF keys = <<>> THEN <<>>
  ELSE IF HasText(raw, Head(keys)) THEN TextOf(raw, Head(keys))
  ELSE FirstNonEmpty(raw, Tail(keys))

\* The documented precedence chain of the query field.
DocumentedQuery(raw, sourceFile) ==
  LET alias == FirstNonEmpty(raw, <<"query", "keyword", "term", "search_term">>)
      vendor == FirstNonEmpty(raw, <<"provider", "category", "topic">>)
  IN  IF alias # <<>> THEN alias
      ELSE IF HasText(raw, "route") \/ HasText(raw, "airline")
      THEN JoinNonEmpty(<<TextOf(raw, "route"), TextOf(raw, "airline"),
                          TextOf(raw, "season")>>)
      ELSE IF vendor # <<>> THEN vendor
      ELSE sourceFile

\* C12 (does not hold): the query of a row is the first non-empty of the
\* record's query, keyword, term and search_term; else, when route or
\* airline is present, the non-empty route, airline and season joined by
\* spaces; else the first non-empty of provider, category and topic; else
\* the source file name.
C12_QueryPrecedence ==
  BuildRowReturned =>
    returned.query = Str(DocumentedQuery(call.raw, call.sourceFile))

DateSourceKeys == <<"snapshot_date", "date", "week", "week_id", "period">>

\* C24 (does not hold): the date of a row is the first non-empty of the
\* record's snapshot_date, date, week, week_id and period: a record whose
\* date is present but empty and whose week is not empty gets its week as
\* date.
C24_DateFirstNonEmpty ==
  BuildRowReturned =>
    returned.date = Str(FirstNonEmpty(call.raw, DateSourceKeys))

\* C28: in every row buildRow returns, date and snapshot_date are equal.
C28_DateEqualsSnapshotDate ==
  BuildRowReturned =>
    /\ IsString(returned.date)
    /\ returned.snapshot_date = returned.date

\* C28 witness: a record without snapshot_date whose date is a text got
\* that text as date and as snapshot_date; so did one with both.
C28_Witness ==
  /\ BuildRowReturned
  /\ ~HasText(call.raw, "snapshot_date")
  /\ HasText(call.raw, "date")
  /\ returned.date = Str(TxtDay12Slash)
  /\ returned.snapshot_date = Str(TxtDay12Slash)

\* The text before and the text after the first occurrence of sep.
RECURSIVE BeforeFirst(_, _)
BeforeFirst(s, sep) ==
  IF s = <<>> \/ Head(s) = sep THEN <<>>
  ELSE <<Head(s)>> \o BeforeFirst(Tail(s), sep)

RECURSIVE AfterFirst(_, _)
AfterFirst(s, sep) ==
  IF s = <<>> THEN <<>>
  ELSE IF Head(s) = sep THEN Tail(s)
  ELSE AfterFirst(Tail(s), sep)

\* The text of a field of the row; an absent field counts as empty.
RowText(row, key) == StringOf(Coalesce(Get(row, key), EmptyStr))

\* C13 (does not hold): a route that contains a '-' is split on its first
\* '-': origin_airport is the trimmed text before it and
\* destination_airport the trimmed text after it.
C13_RouteSplitOnFirstDash ==
  (BuildRowReturned /\ Includes(TextOf(call.raw, "route"), <<"-">>)) =>
    LET route == TextOf(call.raw, "route")
    IN  /\ RowText(returned, "origin_airport") = Trim(BeforeFirst(route, "-"))
        /\ RowText(returned, "destination_airport")
             = Trim(AfterFirst(route, "-"))

\* ------------------------------------------------------------------------
\* Properties of the file parsers (checked under SpecCall)
\* ------------------------------------------------------------------------

LoadTabularReturned ==
  call # None /\ call.fn = "loadTabularRows" /\ returned # None

IsBlankLine(line) == Trim(line) = <<>>

IsCommentLine(line) == StartsWith(Trim(line), <<"#">>)

CommentText(line) == Trim(SliceFrom(Trim(line), 1))

\* The lines that may be the header row: the comments that contain the
\* delimiter and the lines that are neither blank nor a comment.
HeaderCandidates(lines, delimiter) ==
  { i \in 1..Len(lines) :
      /\ ~IsBlankLine(lines[i])
      /\ IsCommentLine(lines[i])
           => Includes(CommentText(lines[i]), <<delimiter>>) }

\* The header row as documented: the first candidate, a comment being
\* adopted only when no header row has been found before it.
DocumentedHeaderAt(lines, delimiter) ==
  CHOOSE i \in HeaderCandidates(lines, delimiter) :
    \A j \in HeaderCandidates(lines, delimiter) : i <= j

\* The lines parsed as records: the lines that are neither blank nor a
\* comment nor the header row.
DocumentedRecordLines(lines, delimiter) ==
  LET IsRecordAt(i) ==
        /\ ~IsBlankLine(lines[i]) /\ ~IsCommentLine(lines[i])
        /\ i # DocumentedHeaderAt(lines, delimiter)
      RECURSIVE From(_)
      From(i) == IF i > Len(lines) THEN <<>>
                 ELSE IF IsRecordAt(i) THEN <<lines[i]>> \o From(i + 1)
                 ELSE From(i + 1)
  IN  From(1)

DocumentedRecords(lines, delimiter) ==
  LET at == DocumentedHeaderAt(lines, delimiter)
      header == IF IsCommentLine(lines[at]) THEN CommentText(lines[at])
                ELSE lines[at]
  IN  IF HeaderCandidates(lines, delimiter) = {} THEN <<>>
      ELSE ParseCsv(<<header>> \o DocumentedRecordLines(lines, delimiter),
                    delimiter).records

\* C23 (does not hold): in a csv or tsv file a comment line is adopted as
\* header row only if it contains the delimiter and no header row has been
\* found before it, neither an adopted comment nor a line that is not a
\* comment; every other comment line is skipped, and the records are the
\* remaining lines read under the recovered header or else under the first
\* line that is not a comment.
C23_CommentHeaderAdoption ==
  LoadTabularReturned =>
    /\ ~returned.threw
    /\ returned.records = DocumentedRecords(call.lines, call.delimiter)

LoadJsonReturned ==
  call # None /\ call.fn = "loadJsonRows" /\ returned # None

\* The payload is a JSON object with a regions map.
HasRegionsMap(payload) ==
  /\ payload.t = "object"
  /\ "regions" \in DOMAIN payload.fields
  /\ payload.fields["regions"].t = "object"

\* A JSON object, which an array is not.
IsJsonObject(v) == v.t = "object"

\* The rows documented for one region.
DocumentedRegionRows(region, weekValue, sourceFile) ==
  LET value == region.value
      defaults == ("region" :> Str(region.name)) @@ ("week" :> weekValue)
                  @@ ("channel_checks" :> Get(value.fields, "channel_checks"))
      RowOf(data) == BuildRow(data.fields @@ defaults, sourceFile,
                              <<"j","s","o","n">>)
      entries == value.fields["top_queries"].items
      RECURSIVE OfEntries(_)
      OfEntries(i) ==
        IF i > Len(entries) THEN <<>>
        ELSE IF IsJsonObject(entries[i])
        THEN <<RowOf(entries[i])>> \o OfEntries(i + 1)
        ELSE OfEntries(i + 1)
  IN  IF ~IsJsonObject(value) THEN <<>>
      ELSE IF /\ "top_queries" \in DOMAIN value.fields
              /\ IsArray(value.fields["top_queries"])
      THEN OfEntries(1)
      ELSE <<RowOf(value)>>

DocumentedRegionsRows(payload, sourceFile) ==
  LET regions == payload.fields["regions"].entries
      RECURSIVE OfRegion(_)
      OfRegion(i) ==
        IF i > Len(regions) THEN <<>>
        ELSE DocumentedRegionRows(regions[i], Get(payload.fields, "week"),
                                  sourceFile) \o OfRegion(i + 1)
  IN  OfRegion(1)

\* C25 (does not hold): for a JSON object with a regions map, every region
\* yields one row for each entry of its top_queries array that is an
\* object, built from the defaults (region name, week, channel_checks)
\* with the fields of the entry over them; a region without top_queries
\* array yields exactly one row, the region object over the same defaults;
\* regions and entries that are no objects yield no row.
C25_RegionsRows ==
  (LoadJsonReturned /\ HasRegionsMap(call.payload)) =>
    returned.rows = DocumentedRegionsRows(call.payload, FileB.name)

\* ------------------------------------------------------------------------
\* Properties of the ISO-week dates (checked under SpecCall)
\* ------------------------------------------------------------------------

SnapshotFilterReturned ==
  call # None /\ call.fn = "snapshotFilter" /\ returned # None

\* The ISO weekday of a day number: 1 is Monday, 7 is Sunday (day 0,
\* 1970-01-01, was a Thursday).
IsoWeekday(days) == ((days + 3) % 7) + 1

\* The day number of (January 4 of the year) minus (its ISO weekday minus 1)
\* days plus 7 * (week - 1) days.
AnchoredMonday(year, week) ==
  LET jan4 == DaysFromCivil(year, 1, 4)
  IN  jan4 - (IsoWeekday(jan4) - 1) + 7 * (week - 1)

\* The day number of the calendar date a YYYY-MM-DD or YYYY/MM/DD text names.
CalendarDay(text) ==
  DaysFromCivil(ParseInt(SubSeq(text, 1, 4)), ParseInt(SubSeq(text, 6, 7)),
                ParseInt(SubSeq(text, 9, 10)))

\* C16 (does not hold): a snapshot date YYYY-Www resolves to the Monday
\* that lies (ISO weekday of January 4 of year YYYY, minus 1) days before
\* that January 4, plus 7 * (ww - 1) days; a row dated 2024-W34 is kept
\* under the snapshotDate filter 2024-08-19 and under no other calendar
\* date.
C16_WeekResolvesToAnchoredMonday ==
  SnapshotFilterReturned =>
    LET year == ParseInt(SubSeq(call.rowDate, 1, 4))
        week == ParseInt(SubSeq(call.rowDate, 7, 8))
    IN  /\ returned.snapshot = DateOf(AnchoredMonday(year, week) * 24)
        /\ (call.rowDate = TxtWeek34 /\ DateMatch(call.filterDate)) =>
             (returned.kept <=>
                CalendarDay(call.filterDate) = DaysFromCivil(2024, 8, 19))

\* ------------------------------------------------------------------------
\* Properties of the filters and of the loader (checked under SpecQuery)
\* ------------------------------------------------------------------------

AirportField(key) ==
  IF key = "originAirport" THEN "origin_airport" ELSE "destination_airport"

\* The row has the field, and its text equals the wanted text up to
\* letter case.
SameIgnoringCase(row, field, wanted) ==
  /\ field \in DOMAIN row
  /\ IsString(row[field])
  /\ ToLowerCase(row[field].s) = ToLowerCase(wanted)

Occurrences(rows, row) == Cardinality({i \in 1..Len(rows) : rows[i] = row})

\* C14: with an originAirport (destinationAirport) filter alone and a
\* limit of at least the number of loaded rows, the returned rows are the
\* loaded rows whose origin_airport (destination_airport) equals the
\* filter value up to letter case, each as often as it was loaded; a row
\* without the field is not returned.
C14_AirportFilterExact ==
  \A key \in {"originAirport", "destinationAirport"} :
    (result # None /\ ~result.threw /\ ActiveFilters(filters) = {key}
       /\ ClampedLimit(filters.limit) >= Len(loaded.rows)) =>
      \A row \in Range(loaded.rows) \cup Range(result.rows) :
        Occurrences(result.rows, row) =
          IF SameIgnoringCase(row, AirportField(key), filters[key].s)
          THEN Occurrences(loaded.rows, row) ELSE 0

\* C14 witness: an originAirport filter alone returned two rows whose
\* origin_airport differs in letter case and left out a loaded row that
\* has no origin_airport.
C14_Witness ==
  /\ result # None /\ ~result.threw
  /\ ActiveFilters(filters) = {"originAirport"}
  /\ ClampedLimit(filters.limit) >= Len(loaded.rows)
  /\ \E i, j \in 1..Len(result.rows) :
       result.rows[i].origin_airport # result.rows[j].origin_airport
  /\ \E i \in 1..Len(loaded.rows) :
       "origin_airport" \notin DOMAIN loaded.rows[i]

\* The filters with every text filter but one taken away.
OnlyFilter(f, key) == [NoFilters EXCEPT ![key] = f[key]]

\* The row satisfies the filter supplied under the key: a query with that
\* filter alone keeps the row.
Satisfies(row, f, key) == RowMatches(row, OnlyFilter(f, key))

MatchedSet(rows, f) ==
  { i \in 1..Len(rows) :
      \A key \in ActiveFilters(f) : Satisfies(rows[i], f, key) }

InFileNameOrder(rows) ==
  \A i \in 1..(Len(rows) - 1) :
    LocaleCompare(rows[i].source_file.s, rows[i + 1].source_file.s) <= 0

\* C17: loading a directory again, its entries unchanged but listed in any
\* order, yields the same rows in the same order, file after file in
\* ascending order of file name.
C17_LoadDeterministic ==
  /\ (loaded # None /\ ~loaded.threw) => InFileNameOrder(loaded.rows)
  /\ reloaded # None =>
       /\ reloaded.data.threw = loaded.threw
       /\ ~loaded.threw => reloaded.data.rows = loaded.rows

\* C17 witness: a directory of two files with rows has been loaded twice,
\* the second time with its entries listed the other way round.
C17_Witness ==
  /\ loaded # None /\ ~loaded.threw
  /\ reloaded # None
  /\ reloaded.listing # dir.entries
  /\ \E i, j \in 1..Len(loaded.rows) :
       loaded.rows[i].source_file # loaded.rows[j].source_file

\* C20: for a directory that cannot be listed loadTrendDataset returns no
\* rows and no available files without raising, and queryAirfareTrends
\* returns no rows with total_rows, matched_rows and rows_returned all 0.
C20_UnlistableDirectoryEmpty ==
  (dir # None /\ ~dir.listable) =>
    /\ loaded # None =>
         /\ ~loaded.threw
         /\ loaded.rows = <<>>
         /\ loaded.availableFiles = <<>>
    /\ result # None =>
         /\ ~result.threw
         /\ result.rows = <<>>
         /\ result.total_rows = 0
         /\ result.matched_rows = 0
         /\ result.rows_returned = 0

C20_Witness ==
  /\ dir # None /\ ~dir.listable
  /\ loaded # None
  /\ result # None

====
